---- MODULE Spec2Model ----
(***************************************************************************)
(* Flight attribute derivation rules of analysis/flight_attribute.py.      *)
(*                                                                         *)
(* One derivation pass over one flight: the inputs (parameters, KPVs,      *)
(* KTIs, sections, attributes, geospatial service answers) are fixed at    *)
(* the start; the scheduler invokes, in a topological order, every rule    *)
(* whose availability gate passes; each invocation is one action that      *)
(* records what derive() did: the calls of set_flight_attr, the value      *)
(* last committed, and whether derive ended in an unhandled exception.     *)
(***************************************************************************)
EXTENDS Integers, Sequences, FiniteSets, TLC

VARIABLES inp, pending, res

vars == <<inp, pending, res>>

(***************************************************************************)
(* Bounds of the model.                                                    *)
(***************************************************************************)
\* sample indices are 0..MaxIdx-1
MaxIdx == 3
\* longest KTI / KPV collection enumerated
MaxLen == 2
\* number of approach intervals
MaxApp == 2

\* groundspeed.array.ptp() > 10
GroundRunPtp == 10

Indices == 0..(MaxIdx - 1)

(***************************************************************************)
(* Python values.  A flight attribute is Absent until set_flight_attr is   *)
(* called; a committed value is None or V(x).                              *)
(***************************************************************************)
Absent == [k |-> "absent"]
None == [k |-> "none"]
V(x) == [k |-> "val", v |-> x]

\* A dependency handed to derive(): avail = FALSE is Python's None argument.
NoArg == [avail |-> FALSE, items |-> <<>>]

\* bool(node) of a list-like node (KPV, KTI, section collection).
Truthy(node) == node.avail /\ node.items # <<>>

\* bool(param) of a Parameter object: an object without __len__.
PTruthy(param) == param.avail

\* bool(attr) of an Attribute object handed to derive().
ATruthy(attr) == attr.avail

SeqRange(s) == {s[i] : i \in DOMAIN s}

Min(S) == CHOOSE x \in S : \A y \in S : x <= y
Max(S) == CHOOSE x \in S : \A y \in S : x >= y

\* numpy ptp(): peak to peak range of a non-empty array.
ptp(array) == Max(SeqRange(array)) - Min(SeqRange(array))

\* array[slice]: the samples start <= i < stop (indices are 0-based in the
\* code, sequence positions are 1-based here).
ArraySlice(array, slice) ==
    LET lo == IF slice.start < 0 THEN 0 ELSE slice.start
        hi == IF slice.stop > Len(array) THEN Len(array) ELSE slice.stop
    IN  IF hi <= lo THEN <<>> ELSE SubSeq(array, lo + 1, hi)

(***************************************************************************)
(* Query surface of the node collections.                                  *)
(***************************************************************************)
NoMatch == [k |-> "none"]

InSlice(index, slice) == slice.start <= index /\ index < slice.stop

\* node.get(within_slice=...): the matches inside the interval, in order.
get_within(items, slice) == SelectSeq(items, LAMBDA e : InSlice(e.index, slice))

\* node.get_first(): the match with the smallest index, or None.
get_first(items) ==
    IF items = <<>> THEN NoMatch
    ELSE items[CHOOSE i \in DOMAIN items :
                 \A j \in DOMAIN items :
                    items[i].index < items[j].index
                    \/ (items[i].index = items[j].index /\ i <= j)]

\* node.get_last(): the match with the largest index, or None.
get_last(items) ==
    IF items = <<>> THEN NoMatch
    ELSE items[CHOOSE i \in DOMAIN items :
                 \A j \in DOMAIN items :
                    items[i].index > items[j].index
                    \/ (items[i].index = items[j].index /\ i >= j)]

\* section collections: first / last by slice start.
get_first_section(items) ==
    IF items = <<>> THEN NoMatch
    ELSE items[CHOOSE i \in DOMAIN items :
                 \A j \in DOMAIN items :
                    items[i].start < items[j].start
                    \/ (items[i].start = items[j].start /\ i <= j)]

get_last_section(items) ==
    IF items = <<>> THEN NoMatch
    ELSE items[CHOOSE i \in DOMAIN items :
                 \A j \in DOMAIN items :
                    items[i].start > items[j].start
                    \/ (items[i].start = items[j].start /\ i >= j)]

\* datetime_of_index(start_datetime, index, frequency): seconds since the
\* epoch of the sample, whole seconds.
datetime_of_index(start, index, frequency) == start + (index \div frequency)

(***************************************************************************)
(* What one invocation of derive() did.                                    *)
(*   st    : "idle" (not invoked), "done" (returned), "fault" (raised)     *)
(*   calls : number of set_flight_attr calls                               *)
(*   val   : the attribute's value: Absent, None or V(x)                   *)
(***************************************************************************)
Idle == [st |-> "idle", calls |-> 0, val |-> Absent]
Start == [st |-> "done", calls |-> 0, val |-> Absent]

\* self.set_flight_attr(value)
set_flight_attr(r, value) == [r EXCEPT !.calls = @ + 1, !.val = value]

\* an exception leaves derive(): what was committed before stays committed
Raise(r) == [r EXCEPT !.st = "fault"]

(***************************************************************************)
(* FlightType                                                              *)
(***************************************************************************)
FlightType_can_operate(available) ==
    {"Fast", "Liftoff", "Touchdown"} \subseteq available

\* The list literal of the override test: 'POSITIONING' 'TEST' has no comma
\* between the two strings, which Python concatenates.
AfrOverrides == {"FERRY", "LINE_TRAINING", "POSITIONINGTEST", "TRAINING"}

\* faulty variant: the Touch And Go test placed before the touchdown/liftoff test
FlightType_airborne_reordered(afr, liftoffs, touchdowns, touch_and_gos) ==
    LET first_touchdown == get_first(touchdowns.items)
        first_liftoff == get_first(liftoffs.items)
        last_touchdown == get_last(touchdowns.items)
    IN  IF Truthy(touch_and_gos)
           /\ last_touchdown.index <= get_last(touch_and_gos.items).index
        THEN set_flight_attr(Start, V("LIFTOFF_ONLY"))
        ELSE IF first_touchdown.index < first_liftoff.index
        THEN set_flight_attr(Start, V("TOUCHDOWN_BEFORE_LIFTOFF"))
        ELSE IF afr.k = "val" /\ afr.v \in AfrOverrides
        THEN set_flight_attr(Start, afr)
        ELSE set_flight_attr(Start, V("COMPLETE"))

\* faulty variant: the Touch And Go comparison strict (<) instead of <=
FlightType_airborne_strict(afr, liftoffs, touchdowns, touch_and_gos) ==
    LET first_touchdown == get_first(touchdowns.items)
        first_liftoff == get_first(liftoffs.items)
        last_touchdown == get_last(touchdowns.items)
    IN  IF first_touchdown.index < first_liftoff.index
        THEN set_flight_attr(Start, V("TOUCHDOWN_BEFORE_LIFTOFF"))
        ELSE IF Truthy(touch_and_gos)
                /\ last_touchdown.index < get_last(touch_and_gos.items).index
        THEN set_flight_attr(Start, V("LIFTOFF_ONLY"))
        ELSE IF afr.k = "val" /\ afr.v \in AfrOverrides
        THEN set_flight_attr(Start, afr)
        ELSE set_flight_attr(Start, V("COMPLETE"))

\* faulty variant: the TOUCHDOWN_BEFORE_LIFTOFF branch without its return
FlightType_airborne_noreturn(afr, liftoffs, touchdowns, touch_and_gos) ==
    LET first_touchdown == get_first(touchdowns.items)
        first_liftoff == get_first(liftoffs.items)
        last_touchdown == get_last(touchdowns.items)
        r1 == IF first_touchdown.index < first_liftoff.index
              THEN set_flight_attr(Start, V("TOUCHDOWN_BEFORE_LIFTOFF"))
              ELSE Start
    IN  IF Truthy(touch_and_gos)
           /\ last_touchdown.index <= get_last(touch_and_gos.items).index
        THEN set_flight_attr(r1, V("LIFTOFF_ONLY"))
        ELSE IF afr.k = "val" /\ afr.v \in AfrOverrides
        THEN set_flight_attr(r1, afr)
        ELSE set_flight_attr(r1, V("COMPLETE"))

\* The branch "if liftoffs and touchdowns:" of derive.
FlightType_airborne(afr, liftoffs, touchdowns, touch_and_gos) ==
    LET first_touchdown == get_first(touchdowns.items)
        first_liftoff == get_first(liftoffs.items)
        last_touchdown == get_last(touchdowns.items)
    IN  IF first_touchdown.index < first_liftoff.index
        THEN set_flight_attr(Start, V("TOUCHDOWN_BEFORE_LIFTOFF"))
        ELSE IF Truthy(touch_and_gos)
                /\ last_touchdown.index <= get_last(touch_and_gos.items).index
        THEN set_flight_attr(Start, V("LIFTOFF_ONLY"))
        ELSE IF afr.k = "val" /\ afr.v \in AfrOverrides
        THEN set_flight_attr(Start, afr)
        ELSE set_flight_attr(Start, V("COMPLETE"))

\* faulty variant: the ground run threshold not strict (>=)
FlightType_derive_ge(afr_type, fast, liftoffs, touchdowns, touch_and_gos, groundspeed) ==
    LET afr == IF ATruthy(afr_type) THEN afr_type.value ELSE None
    IN  IF Truthy(liftoffs) /\ ~Truthy(touchdowns)
        THEN set_flight_attr(Start, V("LIFTOFF_ONLY"))
        ELSE IF ~Truthy(liftoffs) /\ Truthy(touchdowns)
        THEN set_flight_attr(Start, V("TOUCHDOWN_ONLY"))
        ELSE IF Truthy(liftoffs) /\ Truthy(touchdowns)
        THEN FlightType_airborne(afr, liftoffs, touchdowns, touch_and_gos)
        ELSE IF Truthy(fast)
        THEN set_flight_attr(Start, V("REJECTED_TAKEOFF"))
        ELSE IF PTruthy(groundspeed) /\ ptp(groundspeed.items) >= GroundRunPtp
        THEN set_flight_attr(Start, V("GROUND_RUN"))
        ELSE set_flight_attr(Start, V("ENGINE_RUN_UP"))

FlightType_derive(afr_type, fast, liftoffs, touchdowns, touch_and_gos, groundspeed) ==
    LET afr == IF ATruthy(afr_type) THEN afr_type.value ELSE None
    IN  IF Truthy(liftoffs) /\ ~Truthy(touchdowns)
        THEN set_flight_attr(Start, V("LIFTOFF_ONLY"))
        ELSE IF ~Truthy(liftoffs) /\ Truthy(touchdowns)
        THEN set_flight_attr(Start, V("TOUCHDOWN_ONLY"))
        ELSE IF Truthy(liftoffs) /\ Truthy(touchdowns)
        THEN FlightType_airborne(afr, liftoffs, touchdowns, touch_and_gos)
        ELSE IF Truthy(fast)
        THEN set_flight_attr(Start, V("REJECTED_TAKEOFF"))
        ELSE IF PTruthy(groundspeed) /\ ptp(groundspeed.items) > GroundRunPtp
        THEN set_flight_attr(Start, V("GROUND_RUN"))
        ELSE set_flight_attr(Start, V("ENGINE_RUN_UP"))

(***************************************************************************)
(* TakeoffPilot / LandingPilot                                             *)
(***************************************************************************)
TakeoffPilot_can_operate(available) ==
    LET autopilot_available ==
            "Autopilot Engaged 1 At Liftoff" \in available
            /\ "Autopilot Engaged 2 At Liftoff" \in available
        controls_available ==
            {"Pitch (Capt)", "Pitch (FO)", "Roll (Capt)", "Roll (FO)",
             "Takeoff"} \subseteq available
    IN  autopilot_available \/ controls_available

LandingPilot_can_operate(available) ==
    LET controls_available ==
            {"Pitch (Capt)", "Pitch (FO)", "Roll (Capt)", "Roll (FO)",
             "Landing"} \subseteq available
        autopilot_available ==
            "Autopilot Engaged 1 At Touchdown" \in available
            /\ "Autopilot Engaged 2 At Touchdown" \in available
    IN  controls_available \/ autopilot_available

\* The body of _controls_in_use: what it computes from its three parameters.
controls_in_use(takeoff_slice, pitch, roll) ==
    ptp(ArraySlice(pitch.items, takeoff_slice)) # 0
    \/ ptp(ArraySlice(roll.items, takeoff_slice)) # 0

\* Number of parameters of def _controls_in_use(takeoff_slice, pitch, roll).
ControlsInUseParams == 3

\* self._controls_in_use(slice, pitch, roll): a bound method call passes self
\* as well, nargs + 1 positional arguments; Python raises TypeError unless the
\* function takes that many.
call_controls_in_use(nargs) ==
    IF nargs + 1 = ControlsInUseParams THEN "ok" ELSE "TypeError"

\* Block "3) Autopilot Engaged at liftoff": both flags are read from channel 1.
TakeoffPilot_autopilot(r, liftoff_autopilot1, liftoff_autopilot2) ==
    IF Truthy(liftoff_autopilot1) /\ Truthy(liftoff_autopilot2)
    THEN LET first_autopilot1 == get_first(liftoff_autopilot1.items)
             first_autopilot2 == get_first(liftoff_autopilot1.items)
         IN  IF first_autopilot1 = NoMatch \/ first_autopilot2 = NoMatch
             THEN set_flight_attr(r, None)
             ELSE IF first_autopilot1.value # 0 /\ ~(first_autopilot2.value # 0)
             THEN set_flight_attr(r, V("Captain"))
             ELSE IF ~(first_autopilot1.value # 0) /\ first_autopilot2.value # 0
             THEN set_flight_attr(r, V("First Officer"))
             ELSE r
    ELSE r

\* Block "2) controls" followed by block 3 unless block 2 returned or raised.
TakeoffPilot_derive(liftoff_autopilot1, liftoff_autopilot2, pitch_captain, roll_captain, pitch_fo, roll_fo, takeoffs) ==
    IF PTruthy(pitch_captain) /\ PTruthy(roll_captain) /\ PTruthy(pitch_fo)
       /\ PTruthy(roll_fo) /\ Truthy(takeoffs)
    THEN LET takeoff == get_first_section(takeoffs.items)
         IN  IF takeoff = NoMatch
             THEN set_flight_attr(Start, None)
             ELSE IF call_controls_in_use(3) # "ok"
             THEN Raise(Start)
             ELSE LET captain_flying ==
                          controls_in_use(takeoff, pitch_captain, roll_captain)
                      fo_flying == controls_in_use(takeoff, pitch_fo, roll_fo)
                  IN  IF captain_flying /\ fo_flying
                      THEN TakeoffPilot_autopilot(
                               set_flight_attr(Start, None),
                               liftoff_autopilot1, liftoff_autopilot2)
                      ELSE IF captain_flying
                      THEN set_flight_attr(Start, V("Captain"))
                      ELSE IF fo_flying
                      THEN set_flight_attr(Start, V("First Officer"))
                      ELSE TakeoffPilot_autopilot(
                               set_flight_attr(Start, None),
                               liftoff_autopilot1, liftoff_autopilot2)
    ELSE TakeoffPilot_autopilot(Start, liftoff_autopilot1, liftoff_autopilot2)

\* Block "3) Autopilot Engaged at touchdown": both flags are read from
\* channel 1.
LandingPilot_autopilot(r, touchdown_autopilot1, touchdown_autopilot2) ==
    IF Truthy(touchdown_autopilot1) /\ Truthy(touchdown_autopilot2)
    THEN LET last_autopilot1 == get_last(touchdown_autopilot1.items)
             last_autopilot2 == get_last(touchdown_autopilot1.items)
         IN  IF last_autopilot1 = NoMatch \/ last_autopilot2 = NoMatch
             THEN set_flight_attr(r, None)
             ELSE IF last_autopilot1.value # 0 /\ ~(last_autopilot2.value # 0)
             THEN set_flight_attr(r, V("Captain"))
             ELSE IF ~(last_autopilot1.value # 0) /\ last_autopilot2.value # 0
             THEN set_flight_attr(r, V("First Officer"))
             ELSE r
    ELSE r

LandingPilot_derive(pitch_captain, roll_captain, pitch_fo, roll_fo, landings, touchdown_autopilot1, touchdown_autopilot2) ==
    IF PTruthy(pitch_captain) /\ PTruthy(roll_captain) /\ PTruthy(pitch_fo)
       /\ PTruthy(roll_fo) /\ Truthy(landings)
    THEN LET landing == get_first_section(landings.items)
         IN  IF landing = NoMatch
             THEN set_flight_attr(Start, None)
             ELSE IF call_controls_in_use(3) # "ok"
             THEN Raise(Start)
             ELSE LET captain_flying ==
                          controls_in_use(landing, pitch_captain, roll_captain)
                      fo_flying == controls_in_use(landing, pitch_fo, roll_fo)
                  IN  IF captain_flying /\ fo_flying
                      THEN LandingPilot_autopilot(
                               set_flight_attr(Start, None),
                               touchdown_autopilot1, touchdown_autopilot2)
                      ELSE IF captain_flying
                      THEN set_flight_attr(Start, V("Captain"))
                      ELSE IF fo_flying
                      THEN set_flight_attr(Start, V("First Officer"))
                      ELSE LandingPilot_autopilot(
                               set_flight_attr(Start, None),
                               touchdown_autopilot1, touchdown_autopilot2)
    ELSE LandingPilot_autopilot(Start, touchdown_autopilot1,
                                touchdown_autopilot2)

(***************************************************************************)
(* Geospatial service (api_handler).  The service's answers are part of    *)
(* the inputs: inp.api.no_airport holds the latitudes for which            *)
(* get_nearest_airport raises NotFoundError, inp.api.no_runway the         *)
(* headings for which get_nearest_runway raises it.                        *)
(***************************************************************************)
NotFoundError == [k |-> "NotFoundError"]

get_nearest_airport(latitude, longitude) ==
    IF latitude \in inp.api.no_airport
    THEN NotFoundError
    ELSE [id |-> 100 + 10 * latitude + longitude,
          latitude |-> latitude, longitude |-> longitude]

get_nearest_runway(airport_id, heading, kwargs) ==
    IF heading \in inp.api.no_runway
    THEN NotFoundError
    ELSE [id |-> airport_id, identifier |-> heading, kwargs |-> kwargs]

\* "not x" of a value that is None or a number
Falsy(x) == x = None \/ (x.k = "val" /\ x.v = 0)

(***************************************************************************)
(* Approaches                                                              *)
(***************************************************************************)
\* faulty variant: a latitude of one source accepted with a longitude of the
\* other
Approaches_can_operate_mixed(available) ==
    LET required == {"Start Datetime", "Approach And Landing",
                     "Heading At Landing", "Touch And Go", "Go Around"}
                        \subseteq available
        lat == "Latitude At Low Point On Approach" \in available
               \/ "Latitude At Landing" \in available
        lon == "Longitude At Low Point On Approach" \in available
               \/ "Longitude At Landing" \in available
    IN  required /\ lat /\ lon

Approaches_can_operate(available) ==
    LET required == {"Start Datetime", "Approach And Landing",
                     "Heading At Landing", "Touch And Go", "Go Around"}
                        \subseteq available
        approach_lat_lon == "Latitude At Low Point On Approach" \in available
                            /\ "Longitude At Low Point On Approach" \in available
        landing_lat_lon == "Latitude At Landing" \in available
                           /\ "Longitude At Landing" \in available
    IN  required /\ (approach_lat_lon \/ landing_lat_lon)

\* faulty variant: the Touch And Go test first
get_approach_type_mut(approach_slice, landing_hdg_kpvs, touch_and_gos, go_arounds) ==
    IF Truthy(touch_and_gos)
       /\ Len(get_within(touch_and_gos.items, approach_slice)) = 1
    THEN V("TOUCH_AND_GO")
    ELSE IF Truthy(landing_hdg_kpvs)
            /\ Len(get_within(landing_hdg_kpvs.items, approach_slice)) = 1
    THEN V("LANDING")
    ELSE IF Truthy(go_arounds)
            /\ Len(get_within(go_arounds.items, approach_slice)) = 1
    THEN V("GO_AROUND")
    ELSE None

get_approach_type(approach_slice, landing_hdg_kpvs, touch_and_gos, go_arounds) ==
    IF Truthy(landing_hdg_kpvs)
       /\ Len(get_within(landing_hdg_kpvs.items, approach_slice)) = 1
    THEN V("LANDING")
    ELSE IF Truthy(touch_and_gos)
            /\ Len(get_within(touch_and_gos.items, approach_slice)) = 1
    THEN V("TOUCH_AND_GO")
    ELSE IF Truthy(go_arounds)
            /\ Len(get_within(go_arounds.items, approach_slice)) = 1
    THEN V("GO_AROUND")
    ELSE None

\* faulty variant: each coordinate resolved on its own, landing source first
get_lat_lon_mixed(approach_slice, landing_lat_kpvs, landing_lon_kpvs, approach_lat_kpvs, approach_lon_kpvs) ==
    LET llat == get_within(landing_lat_kpvs.items, approach_slice)
        llon == get_within(landing_lon_kpvs.items, approach_slice)
        alat == get_within(approach_lat_kpvs.items, approach_slice)
        alon == get_within(approach_lon_kpvs.items, approach_slice)
    IN  <<IF Len(llat) = 1 THEN V(llat[1].value)
          ELSE IF Len(alat) = 1 THEN V(alat[1].value) ELSE None,
          IF Len(llon) = 1 THEN V(llon[1].value)
          ELSE IF Len(alon) = 1 THEN V(alon[1].value) ELSE None>>

get_lat_lon(approach_slice, landing_lat_kpvs, landing_lon_kpvs, approach_lat_kpvs, approach_lon_kpvs) ==
    LET llat == get_within(landing_lat_kpvs.items, approach_slice)
        llon == get_within(landing_lon_kpvs.items, approach_slice)
        alat == get_within(approach_lat_kpvs.items, approach_slice)
        alon == get_within(approach_lon_kpvs.items, approach_slice)
    IN  IF Truthy(landing_lat_kpvs) /\ Truthy(landing_lon_kpvs)
           /\ Len(llat) = 1 /\ Len(llon) = 1
        THEN <<V(llat[1].value), V(llon[1].value)>>
        ELSE IF Truthy(approach_lat_kpvs) /\ Truthy(approach_lon_kpvs)
                /\ Len(alat) = 1 /\ Len(alon) = 1
        THEN <<V(alat[1].value), V(alon[1].value)>>
        ELSE <<None, None>>

\* faulty variant: the first of several landing headings picked
get_hdg_first(approach_slice, landing_hdg_kpvs, approach_hdg_kpvs) ==
    LET lhdg == get_within(landing_hdg_kpvs.items, approach_slice)
        ahdg == get_within(approach_hdg_kpvs.items, approach_slice)
    IN  IF Truthy(landing_hdg_kpvs) /\ Len(lhdg) >= 1
        THEN V(lhdg[1].value)
        ELSE IF Truthy(approach_hdg_kpvs) /\ Len(ahdg) = 1
        THEN V(ahdg[1].value)
        ELSE None

get_hdg(approach_slice, landing_hdg_kpvs, approach_hdg_kpvs) ==
    LET lhdg == get_within(landing_hdg_kpvs.items, approach_slice)
        ahdg == get_within(approach_hdg_kpvs.items, approach_slice)
    IN  IF Truthy(landing_hdg_kpvs) /\ Len(lhdg) = 1
        THEN V(lhdg[1].value)
        ELSE IF Truthy(approach_hdg_kpvs) /\ Len(ahdg) = 1
        THEN V(ahdg[1].value)
        ELSE None

\* keyword arguments of get_nearest_runway: a key not passed is Absent
NoKwargs == [ilsfreq |-> Absent, latitude |-> Absent, longitude |-> Absent]

\* One pass of the loop body "for approach in approach_and_landing": the
\* record appended for the approach, or NoMatch when the body ends in
\* "continue".  d holds the arguments of derive.
Approaches_approach(approach, d) ==
    LET approach_datetime ==
            datetime_of_index(d.start_datetime.value.v, approach.stop,
                              d.frequency)
        approach_type ==
            get_approach_type(approach, d.landing_hdg_kpvs, d.touch_and_gos,
                              d.go_arounds)
        latlon == get_lat_lon(approach, d.landing_lat_kpvs,
                              d.landing_lon_kpvs, d.approach_lat_kpvs,
                              d.approach_lon_kpvs)
        lat == latlon[1]
        lon == latlon[2]
    IN  IF approach_type = None
        THEN NoMatch
        ELSE IF Falsy(lat) \/ Falsy(lon)
        THEN NoMatch
        ELSE LET airport == get_nearest_airport(lat.v, lon.v)
             IN  IF airport = NotFoundError
                 THEN NoMatch
                 ELSE LET airport_id == airport.id
                          hdg == get_hdg(approach, d.landing_hdg_kpvs,
                                         d.approach_hdg_kpvs)
                          ilsfreq_kpvs ==
                              get_within(d.approach_ilsfreq_kpvs.items,
                                         approach)
                          kw1 == IF Truthy(d.approach_ilsfreq_kpvs)
                                    /\ Len(ilsfreq_kpvs) = 1
                                 THEN [NoKwargs EXCEPT
                                         !.ilsfreq = V(ilsfreq_kpvs[1].value)]
                                 ELSE NoKwargs
                          kwargs == IF ATruthy(d.precision)
                                       /\ d.precision.value = V(TRUE)
                                    THEN [kw1 EXCEPT !.latitude = lat,
                                                     !.longitude = lon]
                                    ELSE kw1
                      IN  IF Falsy(hdg)
                          THEN [airport |-> V(airport_id), runway |-> None,
                                type |-> approach_type,
                                datetime |-> approach_datetime]
                          ELSE LET runway == get_nearest_runway(airport_id,
                                                                hdg.v, kwargs)
                                   runway_ident ==
                                       IF runway = NotFoundError
                                       THEN None
                                       ELSE V(runway.identifier)
                               IN  [airport |-> V(airport_id),
                                    runway |-> runway_ident,
                                    type |-> approach_type,
                                    datetime |-> approach_datetime]

\* faulty variant: records inserted at the front of the list
Approaches_loop_mut(approach_and_landing, d) ==
    LET f[i \in 0..Len(approach_and_landing)] ==
            IF i = 0 THEN <<>>
            ELSE LET rec == Approaches_approach(approach_and_landing[i], d)
                 IN  IF rec = NoMatch THEN f[i - 1] ELSE <<rec>> \o f[i - 1]
    IN  f[Len(approach_and_landing)]

\* The list built by the loop over approach_and_landing.
Approaches_loop(approach_and_landing, d) ==
    LET f[i \in 0..Len(approach_and_landing)] ==
            IF i = 0 THEN <<>>
            ELSE LET rec == Approaches_approach(approach_and_landing[i], d)
                 IN  IF rec = NoMatch THEN f[i - 1] ELSE Append(f[i - 1], rec)
    IN  f[Len(approach_and_landing)]

Approaches_derive(d) ==
    set_flight_attr(Start, V(Approaches_loop(d.approach_and_landing.items, d)))

(***************************************************************************)
(* Availability gate of a rule that declares none (node base class):       *)
(* passes when at least one declared input is present.                     *)
(***************************************************************************)
default_can_operate(declared, available) == declared \cap available # {}

(***************************************************************************)
(* LandingAirport / TakeoffAirport                                         *)
(***************************************************************************)
\* faulty variant: the airport committed although the lookup raised
LandingAirport_derive_mut(landing_latitude, landing_longitude) ==
    IF ~landing_latitude.avail \/ ~landing_longitude.avail
    THEN Raise(Start)
    ELSE LET last_latitude == get_last(landing_latitude.items)
             last_longitude == get_last(landing_longitude.items)
         IN  IF last_latitude = NoMatch \/ last_longitude = NoMatch
             THEN set_flight_attr(Start, None)
             ELSE set_flight_attr(Start,
                      V([id |-> 100 + 10 * last_latitude.value
                                  + last_longitude.value,
                         latitude |-> last_latitude.value,
                         longitude |-> last_longitude.value]))

LandingAirport_derive(landing_latitude, landing_longitude) ==
    IF ~landing_latitude.avail \/ ~landing_longitude.avail
    THEN \* None.get_last(): AttributeError
         Raise(Start)
    ELSE LET last_latitude == get_last(landing_latitude.items)
             last_longitude == get_last(landing_longitude.items)
         IN  IF last_latitude = NoMatch \/ last_longitude = NoMatch
             THEN set_flight_attr(Start, None)
             ELSE LET airport == get_nearest_airport(last_latitude.value,
                                                     last_longitude.value)
                  IN  IF airport = NotFoundError
                      THEN set_flight_attr(Start, None)
                      ELSE set_flight_attr(Start, V(airport))

TakeoffAirport_derive(liftoff, latitude, longitude) ==
    IF ~Truthy(liftoff)
    THEN IF ~liftoff.avail
         THEN \* liftoff.name of None: AttributeError
              Raise(Start)
         ELSE set_flight_attr(Start, None)
    ELSE IF ~latitude.avail \/ ~longitude.avail
    THEN \* None.array: AttributeError
         Raise(Start)
    ELSE LET liftoff_index == liftoff.items[1].index
             latitude_at_liftoff == latitude.items[liftoff_index + 1]
             longitude_at_liftoff == longitude.items[liftoff_index + 1]
             airport == get_nearest_airport(latitude_at_liftoff,
                                            longitude_at_liftoff)
         IN  IF airport = NotFoundError
             THEN Start
             ELSE set_flight_attr(Start, V(airport))

(***************************************************************************)
(* LandingRunway / TakeoffRunway                                           *)
(***************************************************************************)
LandingRunway_can_operate(available) ==
    {"Approach And Landing", "FDR Landing Airport", "Heading At Landing"}
        \subseteq available

LandingRunway_derive(approach_and_landing, landing_hdg, airport, landing_latitude, landing_longitude, approach_ilsfreq, precision) ==
    IF airport.value = None
    THEN \* None['id']: TypeError
         Raise(Start)
    ELSE
    LET airport_id == airport.value.v.id
        landing == get_last_section(approach_and_landing.items)
        heading_kpv == get_last(get_within(landing_hdg.items, landing))
        heading == heading_kpv.value
        ilsfreq_kpv == get_last(get_within(approach_ilsfreq.items, landing))
        kw1 == IF Truthy(approach_ilsfreq)
               THEN [NoKwargs EXCEPT
                       !.ilsfreq = IF ilsfreq_kpv # NoMatch
                                   THEN V(ilsfreq_kpv.value) ELSE None]
               ELSE NoKwargs
        last_latitude == get_last(get_within(landing_latitude.items, landing))
        last_longitude ==
            get_last(get_within(landing_longitude.items, landing))
        kwargs == IF ATruthy(precision) /\ precision.value = V(TRUE)
                     /\ Truthy(landing_latitude) /\ Truthy(landing_longitude)
                     /\ last_latitude # NoMatch /\ last_longitude # NoMatch
                  THEN [kw1 EXCEPT !.latitude = V(last_latitude.value),
                                   !.longitude = V(last_longitude.value)]
                  ELSE kw1
    IN  IF landing = NoMatch
        THEN Start
        ELSE IF heading_kpv = NoMatch
        THEN Start
        ELSE LET runway == get_nearest_runway(airport_id, heading, kwargs)
             IN  IF runway = NotFoundError
                 THEN Start
                 ELSE set_flight_attr(Start, V(runway))

TakeoffRunway_can_operate(available) ==
    "FDR Takeoff Airport" \in available /\ "Heading At Takeoff" \in available

TakeoffRunway_derive(airport, hdg, liftoff, latitude, longitude, precision) ==
    LET kwargs ==
            IF ATruthy(precision) /\ precision.value = V(TRUE)
               /\ Truthy(liftoff) /\ PTruthy(latitude) /\ PTruthy(longitude)
            THEN LET liftoff_index == liftoff.items[1].index
                 IN  [NoKwargs EXCEPT
                        !.latitude = V(latitude.items[liftoff_index + 1]),
                        !.longitude = V(longitude.items[liftoff_index + 1])]
            ELSE NoKwargs
    IN  IF airport.value = None
        THEN \* None['id']: TypeError
             Raise(Start)
        ELSE IF hdg.items = <<>>
        THEN \* hdg[0] of an empty collection: IndexError
             Raise(Start)
        ELSE LET airport_id == airport.value.v.id
                 hdg_value == hdg.items[1].value
                 runway == get_nearest_runway(airport_id, hdg_value, kwargs)
             IN  IF runway = NotFoundError
                 THEN Start
                 ELSE set_flight_attr(Start, V(runway))

(***************************************************************************)
(* Simple value-selection rules                                            *)
(***************************************************************************)
\* faulty variant: the start of the recording committed instead of the clock
AnalysisDatetime_derive_start(start_datetime, now) == set_flight_attr(Start, start_datetime.value)

AnalysisDatetime_derive(start_datetime, now) == set_flight_attr(Start, V(now))

\* faulty variant: the operands of the subtraction exchanged
Duration_derive_swapped(takeoff_dt, landing_dt) ==
    IF ~landing_dt.avail \/ ~takeoff_dt.avail
    THEN Raise(Start)
    ELSE IF landing_dt.value # None /\ takeoff_dt.value # None
    THEN set_flight_attr(Start, V(takeoff_dt.value.v - landing_dt.value.v))
    ELSE set_flight_attr(Start, None)

Duration_derive(takeoff_dt, landing_dt) ==
    IF ~landing_dt.avail \/ ~takeoff_dt.avail
    THEN \* None.value: AttributeError
         Raise(Start)
    ELSE IF landing_dt.value # None /\ takeoff_dt.value # None
    THEN set_flight_attr(Start, V(landing_dt.value.v - takeoff_dt.value.v))
    ELSE set_flight_attr(Start, None)

FlightID_derive(flight_id) == set_flight_attr(Start, flight_id.value)

FlightNumber_derive(num) ==
    IF num.items = <<>>
    THEN \* array[0] of an empty array: IndexError
         Raise(Start)
    ELSE set_flight_attr(Start, V(num.items[(Len(num.items) \div 2) + 1]))

\* turning.get_first(name='Turning On Ground') / get_last(name=...)
TurningOnGround(turning) ==
    SelectSeq(turning.items, LAMBDA e : e.name = "Turning On Ground")

OffBlocksDatetime_derive(turning, start_datetime) ==
    IF ~turning.avail
    THEN Raise(Start)
    ELSE LET first_turning == get_first_section(TurningOnGround(turning))
         IN  IF first_turning = NoMatch
             THEN set_flight_attr(Start, None)
             ELSE IF ~start_datetime.avail
             THEN Raise(Start)
             ELSE set_flight_attr(Start,
                      V(datetime_of_index(start_datetime.value.v,
                                          first_turning.start, inp.frequency)))

OnBlocksDatetime_derive(turning, start_datetime) ==
    IF ~turning.avail
    THEN Raise(Start)
    ELSE LET last_turning == get_last_section(TurningOnGround(turning))
         IN  IF last_turning = NoMatch
             THEN set_flight_attr(Start, None)
             ELSE IF ~start_datetime.avail
             THEN Raise(Start)
             ELSE set_flight_attr(Start,
                      V(datetime_of_index(start_datetime.value.v,
                                          last_turning.start, inp.frequency)))

\* faulty variant: the takeoff timed at the last liftoff
TakeoffDatetime_derive_last(liftoff, start_dt) ==
    IF ~liftoff.avail
    THEN Raise(Start)
    ELSE LET last_liftoff == get_last(liftoff.items)
         IN  IF last_liftoff = NoMatch
             THEN set_flight_attr(Start, None)
             ELSE IF ~start_dt.avail
             THEN Raise(Start)
             ELSE set_flight_attr(Start,
                      V(datetime_of_index(start_dt.value.v,
                                          last_liftoff.index, inp.frequency)))

TakeoffDatetime_derive(liftoff, start_dt) ==
    IF ~liftoff.avail
    THEN Raise(Start)
    ELSE LET first_liftoff == get_first(liftoff.items)
         IN  IF first_liftoff = NoMatch
             THEN set_flight_attr(Start, None)
             ELSE IF ~start_dt.avail
             THEN Raise(Start)
             ELSE set_flight_attr(Start,
                      V(datetime_of_index(start_dt.value.v,
                                          first_liftoff.index, inp.frequency)))

LandingDatetime_derive(start_datetime, touchdown) ==
    IF ~touchdown.avail
    THEN Raise(Start)
    ELSE LET last_touchdown == get_last(touchdown.items)
         IN  IF last_touchdown = NoMatch
             THEN set_flight_attr(Start, None)
             ELSE IF ~start_datetime.avail
             THEN Raise(Start)
             ELSE set_flight_attr(Start,
                      V(datetime_of_index(start_datetime.value.v,
                                          last_touchdown.index,
                                          inp.frequency)))

TakeoffFuel_can_operate(available) ==
    "AFR Takeoff Fuel" \in available \/ "Fuel Qty At Liftoff" \in available

TakeoffFuel_derive(afr_takeoff_fuel, liftoff_fuel_qty) ==
    IF ATruthy(afr_takeoff_fuel)
    THEN set_flight_attr(Start, afr_takeoff_fuel.value)
    ELSE LET fuel_qty_kpv == get_first(liftoff_fuel_qty.items)
         IN  IF fuel_qty_kpv # NoMatch
             THEN set_flight_attr(Start, V(fuel_qty_kpv.value))
             ELSE Start

LandingFuel_can_operate(available) ==
    "AFR Landing Fuel" \in available \/ "Fuel Qty At Touchdown" \in available

\* faulty variant: the first touchdown fuel quantity instead of the last
LandingFuel_derive_first(afr_landing_fuel, touchdown_fuel_qty) ==
    IF ATruthy(afr_landing_fuel)
    THEN set_flight_attr(Start, afr_landing_fuel.value)
    ELSE LET fuel_qty_kpv == get_first(touchdown_fuel_qty.items)
         IN  IF fuel_qty_kpv # NoMatch
             THEN set_flight_attr(Start, V(fuel_qty_kpv.value))
             ELSE Start

LandingFuel_derive(afr_landing_fuel, touchdown_fuel_qty) ==
    IF ATruthy(afr_landing_fuel)
    THEN set_flight_attr(Start, afr_landing_fuel.value)
    ELSE LET fuel_qty_kpv == get_last(touchdown_fuel_qty.items)
         IN  IF fuel_qty_kpv # NoMatch
             THEN set_flight_attr(Start, V(fuel_qty_kpv.value))
             ELSE Start

TakeoffGrossWeight_derive(liftoff_gross_weight) ==
    LET first_gross_weight == get_first(liftoff_gross_weight.items)
    IN  IF first_gross_weight = NoMatch
        THEN Start
        ELSE set_flight_attr(Start, V(first_gross_weight.value))

LandingGrossWeight_derive(touchdown_gross_weight) ==
    LET last_gross_weight == get_last(touchdown_gross_weight.items)
    IN  IF last_gross_weight # NoMatch
        THEN set_flight_attr(Start, V(last_gross_weight.value))
        ELSE Start

\* V2, Vapp: placeholders that return without committing
V2_derive(weight_touchdown, flap_touchdown) ==
    IF ~weight_touchdown.avail \/ ~flap_touchdown.avail
    THEN Raise(Start)
    ELSE Start

Vapp_derive(weight_touchdown, flap_touchdown) ==
    IF ~weight_touchdown.avail \/ ~flap_touchdown.avail
    THEN Raise(Start)
    ELSE Start

Vref_derive(aircraft_model, weight_touchdown, flap_touchdown) == Start

Version_derive(start_datetime) == set_flight_attr(Start, V(inp.version))

(***************************************************************************)
(* The derivation pass.                                                    *)
(***************************************************************************)
Order == <<"TakeoffPilot", "LandingPilot", "FlightType", "Approaches",
           "TakeoffAirport", "TakeoffRunway", "LandingAirport",
           "LandingRunway", "TakeoffDatetime", "LandingDatetime", "Duration",
           "TakeoffFuel", "LandingFuel", "TakeoffGrossWeight",
           "LandingGrossWeight", "FlightID", "FlightNumber",
           "OffBlocksDatetime", "OnBlocksDatetime", "V2", "Vapp", "Vref",
           "Version", "AnalysisDatetime">>

Rules == SeqRange(Order)

\* names of the inputs the flight supplies
BaseAvailable == DOMAIN inp.node \cup DOMAIN inp.attr

\* the names the scheduler hands to can_operate: the supplied inputs and the
\* attributes of the rules that can operate on them
Available ==
    BaseAvailable
    \cup (IF default_can_operate({"Latitude At Landing",
                                  "Longitude At Landing"}, BaseAvailable)
          THEN {"FDR Landing Airport"} ELSE {})
    \cup (IF default_can_operate({"Liftoff", "Latitude", "Longitude"},
                                 BaseAvailable)
          THEN {"FDR Takeoff Airport"} ELSE {})
    \cup (IF default_can_operate({"Liftoff", "Start Datetime"}, BaseAvailable)
          THEN {"FDR Takeoff Datetime"} ELSE {})
    \cup (IF default_can_operate({"Start Datetime", "Touchdown"},
                                 BaseAvailable)
          THEN {"FDR Landing Datetime"} ELSE {})

\* the names declared by the derive() of each rule without a gate of its own
Declared(r) ==
    CASE r = "AnalysisDatetime" -> {"Start Datetime"}
      [] r = "Duration" -> {"FDR Takeoff Datetime", "FDR Landing Datetime"}
      [] r = "FlightID" -> {"AFR Flight ID"}
      [] r = "FlightNumber" -> {"Flight Number"}
      [] r = "LandingAirport" -> {"Latitude At Landing", "Longitude At Landing"}
      [] r = "OffBlocksDatetime" -> {"Turning", "Start Datetime"}
      [] r = "OnBlocksDatetime" -> {"Turning", "Start Datetime"}
      [] r = "TakeoffAirport" -> {"Liftoff", "Latitude", "Longitude"}
      [] r = "TakeoffDatetime" -> {"Liftoff", "Start Datetime"}
      [] r = "TakeoffGrossWeight" -> {"Gross Weight At Liftoff"}
      [] r = "LandingDatetime" -> {"Start Datetime", "Touchdown"}
      [] r = "LandingGrossWeight" -> {"Gross Weight At Touchdown"}
      [] r = "V2" -> {"Gross Weight At Touchdown", "Flap At Touchdown"}
      [] r = "Vapp" -> {"Gross Weight At Touchdown", "Flap At Touchdown"}
      [] r = "Version" -> {"Start Datetime"}
      [] r = "Vref" -> {"AFR Aircraft Model", "Gross Weight At Touchdown",
                        "Flap At Touchdown"}
      [] OTHER -> {}

can_operate(r, available) ==
    CASE r = "Approaches" -> Approaches_can_operate(available)
      [] r = "LandingRunway" -> LandingRunway_can_operate(available)
      [] r = "TakeoffFuel" -> TakeoffFuel_can_operate(available)
      [] r = "TakeoffPilot" -> TakeoffPilot_can_operate(available)
      [] r = "TakeoffRunway" -> TakeoffRunway_can_operate(available)
      [] r = "FlightType" -> FlightType_can_operate(available)
      [] r = "LandingFuel" -> LandingFuel_can_operate(available)
      [] r = "LandingPilot" -> LandingPilot_can_operate(available)
      [] OTHER -> default_can_operate(Declared(r), available)

\* the argument bound to a declared KPV, KTI, section or parameter name
K(n) == IF n \in DOMAIN inp.node
        THEN [avail |-> TRUE, items |-> inp.node[n]]
        ELSE NoArg

\* the argument bound to a declared input attribute name
A(n) == IF n \in DOMAIN inp.attr
        THEN [avail |-> TRUE, value |-> inp.attr[n]]
        ELSE [avail |-> FALSE, value |-> None]

\* the argument bound to the attribute of rule r, derived earlier in the
\* pass: its value is None until set_flight_attr gave it one
D(n, r) == IF n \in Available
           THEN [avail |-> TRUE,
                 value |-> IF res[r].val = Absent THEN None ELSE res[r].val]
           ELSE [avail |-> FALSE, value |-> None]

\* the scheduler's plan: the rules whose gate passes, in invocation order
Plan ==
    LET available == Available
    IN  SelectSeq(Order, LAMBDA r : can_operate(r, available))

\* rule r is the next one the scheduler invokes
Turn(r) == pending # <<>> /\ Head(pending) = r

\* the outcome of rule r's derive() recorded
Done(r, result) == [res EXCEPT ![r] = result]

ApproachesArgs ==
    [start_datetime |-> A("Start Datetime"),
     frequency |-> inp.frequency,
     approach_and_landing |-> K("Approach And Landing"),
     landing_hdg_kpvs |-> K("Heading At Landing"),
     touch_and_gos |-> K("Touch And Go"),
     go_arounds |-> K("Go Around"),
     landing_lat_kpvs |-> K("Latitude At Landing"),
     landing_lon_kpvs |-> K("Longitude At Landing"),
     approach_lat_kpvs |-> K("Latitude At Low Point On Approach"),
     approach_lon_kpvs |-> K("Longitude At Low Point On Approach"),
     approach_hdg_kpvs |-> K("Heading At Low Point On Approach"),
     approach_ilsfreq_kpvs |-> K("ILS Frequency On Approach"),
     precision |-> A("Precise Positioning")]

DeriveTakeoffPilot ==
    /\ Turn("TakeoffPilot")
    /\ res' = Done("TakeoffPilot",
            TakeoffPilot_derive(K("Autopilot Engaged 1 At Liftoff"),
            K("Autopilot Engaged 2 At Liftoff"),
            K("Pitch (Capt)"), K("Roll (Capt)"),
            K("Pitch (FO)"), K("Roll (FO)"), K("Takeoff")))
    /\ pending' = Tail(pending)
    /\ UNCHANGED inp

DeriveLandingPilot ==
    /\ Turn("LandingPilot")
    /\ res' = Done("LandingPilot",
            LandingPilot_derive(K("Pitch (Capt)"), K("Roll (Capt)"),
            K("Pitch (FO)"), K("Roll (FO)"), K("Landing"),
            K("Autopilot Engaged 1 At Touchdown"),
            K("Autopilot Engaged 2 At Touchdown")))
    /\ pending' = Tail(pending)
    /\ UNCHANGED inp

DeriveFlightType ==
    /\ Turn("FlightType")
    /\ res' = Done("FlightType",
            FlightType_derive(A("AFR Type"), K("Fast"), K("Liftoff"),
            K("Touchdown"), K("Touch And Go"),
            K("Groundspeed")))
    /\ pending' = Tail(pending)
    /\ UNCHANGED inp

DeriveApproaches ==
    /\ Turn("Approaches")
    /\ res' = Done("Approaches",
            Approaches_derive(ApproachesArgs))
    /\ pending' = Tail(pending)
    /\ UNCHANGED inp

DeriveTakeoffAirport ==
    /\ Turn("TakeoffAirport")
    /\ res' = Done("TakeoffAirport",
            TakeoffAirport_derive(K("Liftoff"), K("Latitude"), K("Longitude")))
    /\ pending' = Tail(pending)
    /\ UNCHANGED inp

DeriveTakeoffRunway ==
    /\ Turn("TakeoffRunway")
    /\ res' = Done("TakeoffRunway",
            TakeoffRunway_derive(D("FDR Takeoff Airport", "TakeoffAirport"),
            K("Heading At Takeoff"), K("Liftoff"),
            K("Latitude"), K("Longitude"),
            A("Precise Positioning")))
    /\ pending' = Tail(pending)
    /\ UNCHANGED inp

DeriveLandingAirport ==
    /\ Turn("LandingAirport")
    /\ res' = Done("LandingAirport",
            LandingAirport_derive(K("Latitude At Landing"),
            K("Longitude At Landing")))
    /\ pending' = Tail(pending)
    /\ UNCHANGED inp

DeriveLandingRunway ==
    /\ Turn("LandingRunway")
    /\ res' = Done("LandingRunway",
            LandingRunway_derive(K("Approach And Landing"),
            K("Heading At Landing"),
            D("FDR Landing Airport", "LandingAirport"),
            K("Latitude At Landing"),
            K("Longitude At Landing"),
            K("ILS Frequency On Approach"),
            A("Precise Positioning")))
    /\ pending' = Tail(pending)
    /\ UNCHANGED inp

DeriveTakeoffDatetime ==
    /\ Turn("TakeoffDatetime")
    /\ res' = Done("TakeoffDatetime",
            TakeoffDatetime_derive(K("Liftoff"), A("Start Datetime")))
    /\ pending' = Tail(pending)
    /\ UNCHANGED inp

DeriveLandingDatetime ==
    /\ Turn("LandingDatetime")
    /\ res' = Done("LandingDatetime",
            LandingDatetime_derive(A("Start Datetime"), K("Touchdown")))
    /\ pending' = Tail(pending)
    /\ UNCHANGED inp

DeriveDuration ==
    /\ Turn("Duration")
    /\ res' = Done("Duration",
            Duration_derive(D("FDR Takeoff Datetime", "TakeoffDatetime"),
            D("FDR Landing Datetime", "LandingDatetime")))
    /\ pending' = Tail(pending)
    /\ UNCHANGED inp

DeriveTakeoffFuel ==
    /\ Turn("TakeoffFuel")
    /\ res' = Done("TakeoffFuel",
            TakeoffFuel_derive(A("AFR Takeoff Fuel"), K("Fuel Qty At Liftoff")))
    /\ pending' = Tail(pending)
    /\ UNCHANGED inp

DeriveLandingFuel ==
    /\ Turn("LandingFuel")
    /\ res' = Done("LandingFuel",
            LandingFuel_derive(A("AFR Landing Fuel"),
            K("Fuel Qty At Touchdown")))
    /\ pending' = Tail(pending)
    /\ UNCHANGED inp

DeriveTakeoffGrossWeight ==
    /\ Turn("TakeoffGrossWeight")
    /\ res' = Done("TakeoffGrossWeight",
            TakeoffGrossWeight_derive(K("Gross Weight At Liftoff")))
    /\ pending' = Tail(pending)
    /\ UNCHANGED inp

DeriveLandingGrossWeight ==
    /\ Turn("LandingGrossWeight")
    /\ res' = Done("LandingGrossWeight",
            LandingGrossWeight_derive(K("Gross Weight At Touchdown")))
    /\ pending' = Tail(pending)
    /\ UNCHANGED inp

DeriveFlightID ==
    /\ Turn("FlightID")
    /\ res' = Done("FlightID",
            FlightID_derive(A("AFR Flight ID")))
    /\ pending' = Tail(pending)
    /\ UNCHANGED inp

DeriveFlightNumber ==
    /\ Turn("FlightNumber")
    /\ res' = Done("FlightNumber",
            FlightNumber_derive(K("Flight Number")))
    /\ pending' = Tail(pending)
    /\ UNCHANGED inp

DeriveOffBlocksDatetime ==
    /\ Turn("OffBlocksDatetime")
    /\ res' = Done("OffBlocksDatetime",
            OffBlocksDatetime_derive(K("Turning"), A("Start Datetime")))
    /\ pending' = Tail(pending)
    /\ UNCHANGED inp

DeriveOnBlocksDatetime ==
    /\ Turn("OnBlocksDatetime")
    /\ res' = Done("OnBlocksDatetime",
            OnBlocksDatetime_derive(K("Turning"), A("Start Datetime")))
    /\ pending' = Tail(pending)
    /\ UNCHANGED inp

DeriveV2 ==
    /\ Turn("V2")
    /\ res' = Done("V2",
            V2_derive(K("Gross Weight At Touchdown"),
            K("Flap At Touchdown")))
    /\ pending' = Tail(pending)
    /\ UNCHANGED inp

DeriveVapp ==
    /\ Turn("Vapp")
    /\ res' = Done("Vapp",
            Vapp_derive(K("Gross Weight At Touchdown"),
            K("Flap At Touchdown")))
    /\ pending' = Tail(pending)
    /\ UNCHANGED inp

DeriveVref ==
    /\ Turn("Vref")
    /\ res' = Done("Vref",
            Vref_derive(A("AFR Aircraft Model"),
            K("Gross Weight At Touchdown"),
            K("Flap At Touchdown")))
    /\ pending' = Tail(pending)
    /\ UNCHANGED inp

DeriveVersion ==
    /\ Turn("Version")
    /\ res' = Done("Version",
            Version_derive(A("Start Datetime")))
    /\ pending' = Tail(pending)
    /\ UNCHANGED inp

\* datetime.now(): the wall clock at the time of the call
DeriveAnalysisDatetime ==
    /\ Turn("AnalysisDatetime")
    /\ \E now \in inp.clock :
          res' = Done("AnalysisDatetime",
                      AnalysisDatetime_derive(A("Start Datetime"), now))
    /\ pending' = Tail(pending)
    /\ UNCHANGED inp

Next ==
    \/ DeriveTakeoffPilot
    \/ DeriveLandingPilot
    \/ DeriveFlightType
    \/ DeriveApproaches
    \/ DeriveTakeoffAirport
    \/ DeriveTakeoffRunway
    \/ DeriveLandingAirport
    \/ DeriveLandingRunway
    \/ DeriveTakeoffDatetime
    \/ DeriveLandingDatetime
    \/ DeriveDuration
    \/ DeriveTakeoffFuel
    \/ DeriveLandingFuel
    \/ DeriveTakeoffGrossWeight
    \/ DeriveLandingGrossWeight
    \/ DeriveFlightID
    \/ DeriveFlightNumber
    \/ DeriveOffBlocksDatetime
    \/ DeriveOnBlocksDatetime
    \/ DeriveV2
    \/ DeriveVapp
    \/ DeriveVref
    \/ DeriveVersion
    \/ DeriveAnalysisDatetime

(***************************************************************************)
(* Inputs of a pass.                                                       *)
(***************************************************************************)
\* sequences of at most n distinct elements of S
Inj(S, n) ==
    UNION {{q \in [1..k -> S] : \A i, j \in 1..k : i # j => q[i] # q[j]} :
           k \in 0..n}

\* KTI collections: at most n instants, in any order
KtiLists(n) == {[i \in DOMAIN q |-> [index |-> q[i]]] : q \in Inj(Indices, n)}

\* KTI collections in index order
SortedKtiLists(n) ==
    {q \in KtiLists(n) :
        \A i, j \in DOMAIN q : i < j => q[i].index < q[j].index}

\* a collection that may be unavailable: <<FALSE, _>> is no node at all
Optional(S) == {<<FALSE, <<>> >>} \cup {<<TRUE, x>> : x \in S}

\* the entry of an optional input in inp.node / inp.attr
Entry(name, opt) == IF opt[1] THEN name :> opt[2] ELSE <<>>

NoApi == [no_airport |-> {}, no_runway |-> {}]

Flight(node, attr, api) ==
    [node |-> node, attr |-> attr, api |-> api, frequency |-> 1,
     version |-> "0.0.1", clock |-> {2000, 2001}]

AfrTypes == {None, V("FERRY"), V("LINE_TRAINING"), V("POSITIONING"),
             V("TEST"), V("TRAINING"), V("POSITIONINGTEST"), V("COMMERCIAL")}

\* flights that differ in their Liftoff, Touchdown and Touch And Go KTIs
FlightTypeKtiInputs(n) ==
    {Flight("Fast" :> <<>> @@ "Liftoff" :> lo @@ "Touchdown" :> td
                @@ Entry("Touch And Go", tag),
            Entry("AFR Type", afr), NoApi) :
        lo \in KtiLists(n), td \in KtiLists(n),
        tag \in Optional(SortedKtiLists(n)),
        afr \in Optional({V("TEST"), V("FERRY")})}

\* flights that differ in AFR Type, Fast and Groundspeed
FlightTypeGroundInputs(n) ==
    {Flight("Fast" :> fast @@ "Liftoff" :> lo @@ "Touchdown" :> td
                @@ Entry("Groundspeed", gs),
            Entry("AFR Type", afr), NoApi) :
        lo \in KtiLists(n), td \in KtiLists(n),
        fast \in {<<>>, <<[start |-> 0, stop |-> 1]>>},
        gs \in Optional({<<5, 5>>, <<0, GroundRunPtp>>,
                         <<0, GroundRunPtp + 1>>}),
        afr \in Optional(AfrTypes)}

\* control parameter arrays: no movement, or movement at the last sample
Flat == [i \in 1..MaxIdx |-> 0]
Moved == [i \in 1..MaxIdx |-> IF i = MaxIdx THEN 1 ELSE 0]

\* a takeoff / landing section collection: empty, or one interval [0, k)
PilotSections ==
    {<<>>} \cup {<<[start |-> 0, stop |-> k]>> : k \in 1..MaxIdx}

\* autopilot engaged KPV collections: at most n flags, in index order
FlagLists(n) ==
    UNION {{[i \in 1..k |-> [index |-> i - 1, value |-> q[i]]] :
              q \in [1..k -> {0, 1}]} : k \in 0..n}

\* the control inputs of a pilot rule, all present or all absent
ControlInputs(section) ==
    {<<>>}
    \cup {"Pitch (Capt)" :> pc @@ "Roll (Capt)" :> rc @@ "Pitch (FO)" :> pf
            @@ "Roll (FO)" :> rf @@ section :> sec :
              pc \in {Flat, Moved}, rc \in {Flat, Moved},
              pf \in {Flat, Moved}, rf \in {Flat, Moved},
              sec \in PilotSections}

\* the two autopilot collections of a pilot rule, both present or both absent
AutopilotInputs(name1, name2, n) ==
    {<<>>}
    \cup {name1 :> a1 @@ name2 :> a2 :
              a1 \in FlagLists(n), a2 \in FlagLists(n)}

TakeoffPilotInputs(n) ==
    {Flight(c @@ a, <<>>, NoApi) :
        c \in ControlInputs("Takeoff"),
        a \in AutopilotInputs("Autopilot Engaged 1 At Liftoff",
                              "Autopilot Engaged 2 At Liftoff", n)}

LandingPilotInputs(n) ==
    {Flight(c @@ a, <<>>, NoApi) :
        c \in ControlInputs("Landing"),
        a \in AutopilotInputs("Autopilot Engaged 1 At Touchdown",
                              "Autopilot Engaged 2 At Touchdown", n)}

\* the approach intervals of a flight: interval i is [2(i-1), 2i)
Intervals == {[start |-> 2 * (i - 1), stop |-> 2 * i] : i \in 1..MaxApp}

\* how many entries a collection has in each interval: 0, 1 or 2
Patterns == [1..MaxApp -> 0..2]
OneEach == [i \in 1..MaxApp |-> 1]

\* the collection with pattern p; the entry in interval i has value base + i
Marks(p, base) ==
    SelectSeq([j \in 1..(2 * MaxApp) |->
                  [index |-> j - 1, value |-> base + ((j + 1) \div 2)]],
              LAMBDA e : p[(e.index \div 2) + 1] > (e.index % 2))

\* KTI collections of the approach scenarios: no instant, one instant, two
\* instants in the first interval, or one in each of the first two intervals
ShortMarks ==
    {<<>>, <<[index |-> 0], [index |-> 1]>>, <<[index |-> 0], [index |-> 2]>>}
    \cup {<<[index |-> i]>> : i \in 0..(2 * MaxApp - 1)}

StartDatetime == "Start Datetime" :> V(1000)

\* flights with a Start Datetime that differ in their Liftoff, Touchdown and
\* Touch And Go KTIs and in AFR Type
KtiFlightInputs(n) ==
    {Flight("Fast" :> <<>> @@ "Liftoff" :> lo @@ "Touchdown" :> td
                @@ Entry("Touch And Go", tag),
            StartDatetime @@ Entry("AFR Type", afr), NoApi) :
        lo \in KtiLists(n), td \in KtiLists(n),
        tag \in Optional({<<>>, <<[index |-> 0]>>}),
        afr \in Optional({V("FERRY")})}

\* flights that differ in what classifies their approaches
ApproachTypeInputs(gas) ==
    {Flight("Approach And Landing" :> aal
                @@ "Heading At Landing" :> Marks(hdg, 8)
                @@ "Touch And Go" :> tag @@ "Go Around" :> ga
                @@ "Latitude At Landing" :> Marks(OneEach, 0)
                @@ "Longitude At Landing" :> Marks(OneEach, 0),
            StartDatetime, NoApi) :
        aal \in Inj(Intervals, MaxApp), hdg \in Patterns,
        tag \in ShortMarks, ga \in gas}

\* flights that differ in where their approaches' positions and headings
\* come from, and in what the geospatial service finds
ApproachPositionInputs(n) ==
    {Flight("Approach And Landing" :> aal
                @@ "Heading At Landing" :> Marks(OneEach, hb)
                @@ "Touch And Go" :> <<>> @@ "Go Around" :> <<>>
                @@ "Latitude At Landing" :> Marks(lat, lb)
                @@ "Longitude At Landing" :> Marks(OneEach, 0)
                @@ Entry("Latitude At Low Point On Approach", alat)
                @@ Entry("Longitude At Low Point On Approach", alat)
                @@ Entry("ILS Frequency On Approach", ils),
            StartDatetime @@ Entry("Precise Positioning", prec),
            [no_airport |-> na, no_runway |-> nr]) :
        aal \in {q \in Inj(Intervals, n) : Len(q) = n},
        lat \in Patterns, lb \in {-1, 0}, hb \in {-1, 8},
        alat \in Optional({Marks(OneEach, 4)}),
        ils \in Optional({Marks(OneEach, 100)}),
        prec \in Optional({V(TRUE)}),
        na \in {{}, {2}}, nr \in {{}, {10}}}

\* a KPV collection with c entries at the indices 0..c-1; the first has
\* value base
Entries(c, base) == [k \in 1..c |-> [index |-> k - 1, value |-> base + k - 1]]

\* flights with one approach [0, n), a landing, that differ in how many
\* latitude and longitude KPVs of each source lie in it; out adds a landing
\* latitude after the approach
ApproachLatLonInputs(n) ==
    {Flight("Approach And Landing" :> <<[start |-> 0, stop |-> n]>>
                @@ "Heading At Landing" :> Entries(1, 9)
                @@ "Touch And Go" :> <<>> @@ "Go Around" :> <<>>
                @@ "Latitude At Landing" :>
                      (Entries(llat, 1)
                       \o (IF out THEN <<[index |-> n, value |-> 1]>>
                           ELSE <<>>))
                @@ "Longitude At Landing" :> Entries(llon, 2)
                @@ Entry("Latitude At Low Point On Approach", alat)
                @@ Entry("Longitude At Low Point On Approach", alon),
            StartDatetime, NoApi) :
        llat \in 0..n, llon \in 0..n, out \in BOOLEAN,
        alat \in Optional({Entries(c, 5) : c \in 0..n}),
        alon \in Optional({Entries(c, 7) : c \in 0..n})}

\* flights with one approach [0, n), a touch and go, that differ in how many
\* heading KPVs of each source lie in it; out adds a landing heading after
\* the approach
ApproachHdgInputs(n) ==
    {Flight("Approach And Landing" :> <<[start |-> 0, stop |-> n]>>
                @@ "Heading At Landing" :>
                      (Entries(lhdg, 9)
                       \o (IF out THEN <<[index |-> n, value |-> 1]>>
                           ELSE <<>>))
                @@ "Touch And Go" :> <<[index |-> 0]>> @@ "Go Around" :> <<>>
                @@ "Latitude At Landing" :> Entries(1, 1)
                @@ "Longitude At Landing" :> Entries(1, 2)
                @@ Entry("Heading At Low Point On Approach", ahdg),
            StartDatetime, NoApi) :
        lhdg \in 0..n, out \in BOOLEAN,
        ahdg \in Optional({Entries(c, 7) : c \in 0..n})}

\* the names Approaches.can_operate looks for among the nodes
ApproachGateNames ==
    {"Approach And Landing", "Heading At Landing", "Touch And Go", "Go Around",
     "Latitude At Landing", "Longitude At Landing",
     "Latitude At Low Point On Approach", "Longitude At Low Point On Approach"}

\* flights that differ in which of the names Approaches.can_operate looks
\* for are available; the approach is [0, n)
ApproachGateInputs(n) ==
    {Flight([x \in present |->
                CASE x = "Approach And Landing" -> <<[start |-> 0, stop |-> n]>>
                  [] x \in {"Touch And Go", "Go Around"} -> <<>>
                  [] OTHER -> Entries(1, 3)],
            Entry("Start Datetime", sd), NoApi) :
        present \in SUBSET ApproachGateNames,
        sd \in Optional({V(1000)})}

KPV(index, value) == [index |-> index, value |-> value]

\* flights that differ in the inputs of the airport and runway rules and in
\* what the geospatial service finds
AirportInputs(n) ==
    {Flight("Latitude At Landing" :> lat @@ "Longitude At Landing" :> lon
                @@ "Approach And Landing" :> aal
                @@ "Heading At Landing" :> hdgl
                @@ Entry("ILS Frequency On Approach", ils)
                @@ "Liftoff" :> lo
                @@ "Latitude" :> [i \in 1..n |-> 3]
                @@ "Longitude" :> [i \in 1..n |-> 2]
                @@ "Heading At Takeoff" :> hdgt,
            StartDatetime @@ Entry("Precise Positioning", prec),
            [no_airport |-> na, no_runway |-> nr]) :
        lat \in {<<>>, <<KPV(1, 1)>>, <<KPV(0, 2), KPV(1, 1)>>},
        lon \in {<<>>, <<KPV(1, 2)>>},
        aal \in {<<>>, <<[start |-> 0, stop |-> n]>>},
        hdgl \in {<<>>, <<KPV(1, 9)>>},
        ils \in Optional({<<KPV(1, 110)>>}),
        lo \in {<<>>, <<[index |-> 0]>>},
        hdgt \in {<<>>, <<KPV(0, 9)>>},
        prec \in Optional({V(TRUE)}),
        na \in SUBSET {1, 3}, nr \in {{}, {9}}}

\* flights that differ in the manually entered fuel attributes and in the
\* number of fuel quantity KPVs, the first of value 0
FuelInputs(n) ==
    {Flight(Entry("Fuel Qty At Liftoff", lq) @@ Entry("Fuel Qty At Touchdown", tq),
            Entry("AFR Takeoff Fuel", afr_t) @@ Entry("AFR Landing Fuel", afr_l),
            NoApi) :
        lq \in Optional({Entries(c, 0) : c \in 0..n}),
        tq \in Optional({Entries(c, 0) : c \in 0..n}),
        afr_t \in Optional({None, V(0), V(4)}),
        afr_l \in Optional({None, V(0), V(4)})}

\* flights that supply every input, with the collections filled or empty
WholeFlightInputs(n) ==
    {Flight("Liftoff" :> (IF full THEN <<[index |-> 0]>> ELSE <<>>)
                @@ "Touchdown" :>
                      (IF full THEN <<[index |-> n - 1]>> ELSE <<>>)
                @@ "Touch And Go" :> <<>> @@ "Go Around" :> <<>>
                @@ "Fast" :> <<>>
                @@ "Takeoff" :>
                      (IF full THEN <<[start |-> 0, stop |-> n]>>
                       ELSE <<>>)
                @@ "Landing" :>
                      (IF full THEN <<[start |-> 0, stop |-> n]>>
                       ELSE <<>>)
                @@ "Approach And Landing" :>
                      (IF full THEN <<[start |-> 0, stop |-> n]>>
                       ELSE <<>>)
                @@ "Turning" :>
                      (IF full
                       THEN <<[name |-> "Turning On Ground", start |-> 0,
                               stop |-> 1],
                              [name |-> "Turning In Air", start |-> 1,
                               stop |-> 2],
                              [name |-> "Turning On Ground", start |-> 2,
                               stop |-> 3]>>
                       ELSE <<>>)
                @@ "Heading At Landing" :> kpvs
                @@ "Latitude At Landing" :> kpvs
                @@ "Longitude At Landing" :> kpvs
                @@ "Heading At Takeoff" :> kpvs
                @@ "Autopilot Engaged 1 At Liftoff" :> kpvs
                @@ "Autopilot Engaged 2 At Liftoff" :> kpvs
                @@ "Autopilot Engaged 1 At Touchdown" :> kpvs
                @@ "Autopilot Engaged 2 At Touchdown" :> kpvs
                @@ "Fuel Qty At Liftoff" :> kpvs
                @@ "Fuel Qty At Touchdown" :> kpvs
                @@ "Gross Weight At Liftoff" :> kpvs
                @@ "Gross Weight At Touchdown" :> kpvs
                @@ "Flap At Touchdown" :> kpvs
                @@ "Pitch (Capt)" :> Moved @@ "Roll (Capt)" :> Flat
                @@ "Pitch (FO)" :> Flat @@ "Roll (FO)" :> Moved
                @@ "Groundspeed" :> Flat
                @@ "Latitude" :> [i \in 1..n |-> 1]
                @@ "Longitude" :> [i \in 1..n |-> 2]
                @@ "Flight Number" :> (IF full THEN <<101, 102, 103>>
                                       ELSE <<>>),
            StartDatetime @@ "AFR Flight ID" :> V(77)
                @@ Entry("AFR Takeoff Fuel", afr)
                @@ Entry("AFR Landing Fuel", afr)
                @@ "AFR Aircraft Model" :> V("B737"),
            NoApi) :
        full \in BOOLEAN,
        kpvs \in {<<>>, <<KPV(0, 3), KPV(1, 5)>>},
        afr \in Optional({None, V(4)})}

InitOn(flights) ==
    /\ inp \in flights
    /\ pending = Plan
    /\ res = [r \in Rules |-> Idle]

\* the whole pass
Init ==
    \/ InitOn(AirportInputs(MaxIdx))
    \/ InitOn(WholeFlightInputs(MaxIdx))
    \/ InitOn(FlightTypeGroundInputs(1))
    \/ InitOn(TakeoffPilotInputs(1))
    \/ InitOn(LandingPilotInputs(1))
    \/ InitOn(ApproachTypeInputs({<<>>}))
    \/ InitOn(KtiFlightInputs(MaxLen))
    \/ InitOn(FuelInputs(MaxLen))

Spec == Init /\ [][Next]_vars

\* the invocation of FlightType alone
InitFlightType ==
    \/ InitOn(FlightTypeKtiInputs(MaxLen))
    \/ InitOn(FlightTypeGroundInputs(1))

NextFlightType == DeriveFlightType

SpecFlightType == InitFlightType /\ [][NextFlightType]_vars

\* the invocation of the pilot rules alone
InitPilot ==
    \/ InitOn(TakeoffPilotInputs(MaxLen))
    \/ InitOn(LandingPilotInputs(MaxLen))

NextPilot == DeriveTakeoffPilot \/ DeriveLandingPilot

SpecPilot == InitPilot /\ [][NextPilot]_vars

\* the invocation of Approaches alone
InitApproaches ==
    \/ InitOn(ApproachTypeInputs(ShortMarks))
    \/ InitOn(ApproachPositionInputs(MaxApp))
    \/ InitOn(ApproachLatLonInputs(MaxLen))
    \/ InitOn(ApproachGateInputs(MaxLen))
    \/ InitOn(ApproachHdgInputs(MaxLen))

NextApproaches == DeriveApproaches

SpecApproaches == InitApproaches /\ [][NextApproaches]_vars

(***************************************************************************)
(* Properties                                                              *)
(***************************************************************************)
Liftoffs == SeqRange(K("Liftoff").items)
Touchdowns == SeqRange(K("Touchdown").items)
TouchAndGos == SeqRange(K("Touch And Go").items)

\* FlightType.derive has been invoked on a flight with both KTIs
AirborneFlight ==
    res["FlightType"].st # "idle" /\ Liftoffs # {} /\ Touchdowns # {}

\* some touchdown lies before every liftoff
TouchdownFirst ==
    \E t \in Touchdowns : \A l \in Liftoffs : t.index < l.index

\* some Touch And Go lies at or after every touchdown
TrailingTouchAndGo ==
    \E g \in TouchAndGos : \A t \in Touchdowns : g.index >= t.index

\* C1: when both Liftoff and Touchdown exist and the first touchdown lies
\* before the first liftoff, FlightType commits TOUCHDOWN_BEFORE_LIFTOFF, once,
\* whatever the Touch And Go, AFR Type, Fast and Groundspeed inputs are.
C1_TouchdownBeforeLiftoff ==
    (AirborneFlight /\ TouchdownFirst)
        => /\ res["FlightType"].st = "done"
           /\ res["FlightType"].calls = 1
           /\ res["FlightType"].val = V("TOUCHDOWN_BEFORE_LIFTOFF")

\* the case of C1 with a trailing Touch And Go and an AFR override present
C1_Witness ==
    /\ AirborneFlight /\ TouchdownFirst /\ TrailingTouchAndGo
    /\ A("AFR Type").value = V("FERRY")
    /\ res["FlightType"].val = V("TOUCHDOWN_BEFORE_LIFTOFF")

AfrOverrideNames == {"FERRY", "LINE_TRAINING", "POSITIONING", "TEST",
                     "TRAINING"}

\* C2: both KTIs exist, the first touchdown does not precede the first
\* liftoff and no Touch And Go lies at or after the last touchdown: the
\* attribute is the AFR Type if that is FERRY, LINE_TRAINING, POSITIONING,
\* TEST or TRAINING, and COMPLETE otherwise.
C2_AfrOverrideOrComplete ==
    (AirborneFlight /\ ~TouchdownFirst /\ ~TrailingTouchAndGo)
        => res["FlightType"].val =
              (IF A("AFR Type").value.k = "val"
                  /\ A("AFR Type").value.v \in AfrOverrideNames
               THEN A("AFR Type").value
               ELSE V("COMPLETE"))

\* C3: both KTIs exist and the first touchdown does not precede the first
\* liftoff: the attribute is LIFTOFF_ONLY when the last Touch And Go is at or
\* after the last touchdown (equality included), whatever the AFR Type, and
\* is not LIFTOFF_ONLY when the last Touch And Go is before the last touchdown.
C3_TrailingTouchAndGo ==
    (AirborneFlight /\ ~TouchdownFirst)
        => /\ TrailingTouchAndGo
                => res["FlightType"].val = V("LIFTOFF_ONLY")
           /\ (TouchAndGos # {} /\ ~TrailingTouchAndGo)
                => res["FlightType"].val # V("LIFTOFF_ONLY")

\* the case of C3 where the last Touch And Go is at the last touchdown's
\* index and an AFR override is present
C3_Witness ==
    /\ AirborneFlight /\ ~TouchdownFirst
    /\ \E g \in TouchAndGos :
          /\ \A h \in TouchAndGos : h.index <= g.index
          /\ \E t \in Touchdowns :
                /\ t.index = g.index
                /\ \A u \in Touchdowns : u.index <= t.index
    /\ A("AFR Type").value = V("FERRY")
    /\ res["FlightType"].val = V("LIFTOFF_ONLY")

PilotRules == {"TakeoffPilot", "LandingPilot"}

PilotSection(r) == IF r = "TakeoffPilot" THEN K("Takeoff") ELSE K("Landing")

PilotAutopilot1(r) ==
    IF r = "TakeoffPilot" THEN K("Autopilot Engaged 1 At Liftoff")
    ELSE K("Autopilot Engaged 1 At Touchdown")

PilotAutopilot2(r) ==
    IF r = "TakeoffPilot" THEN K("Autopilot Engaged 2 At Liftoff")
    ELSE K("Autopilot Engaged 2 At Touchdown")

\* the control inputs of pilot rule r are present, with a section to look at
ControlsPresent(r) ==
    /\ K("Pitch (Capt)").avail /\ K("Roll (Capt)").avail
    /\ K("Pitch (FO)").avail /\ K("Roll (FO)").avail
    /\ PilotSection(r).items # <<>>

\* the samples of a parameter inside the first section of rule r
Samples(r, name) ==
    LET sec == PilotSection(r).items[1]
    IN  {K(name).items[i] :
            i \in {j \in DOMAIN K(name).items :
                      sec.start < j /\ j <= sec.stop}}

\* a seat's pitch or roll takes two different values inside the section
SeatActive(r, pitch, roll) ==
    Cardinality(Samples(r, pitch)) > 1 \/ Cardinality(Samples(r, roll)) > 1

\* C4: when both seats show non-zero pitch-or-roll range in the takeoff /
\* landing interval, the pilot rule commits None as its final value, whatever
\* the two autopilot collections hold.
C4_BothSeatsActiveNone ==
    \A r \in PilotRules :
        (/\ res[r].st # "idle"
         /\ ControlsPresent(r)
         /\ SeatActive(r, "Pitch (Capt)", "Roll (Capt)")
         /\ SeatActive(r, "Pitch (FO)", "Roll (FO)"))
            => /\ res[r].st = "done"
               /\ res[r].calls >= 1
               /\ res[r].val = None

\* the flag the claim reads from an autopilot collection: the first at
\* takeoff, the last at landing
Flag(r, node) ==
    IF r = "TakeoffPilot" THEN node.items[1].value
    ELSE node.items[Len(node.items)].value

\* C5: when the control inputs are unavailable or show no movement for
\* either seat, and both autopilot collections hold a flag, the pilot is the
\* Captain if channel 1 is engaged and channel 2 is not, the First Officer if
\* channel 2 is engaged and channel 1 is not, and undecided otherwise.
C5_AutopilotFallback ==
    \A r \in PilotRules :
        (/\ res[r].st # "idle"
         /\ \/ ~ControlsPresent(r)
            \/ /\ ~SeatActive(r, "Pitch (Capt)", "Roll (Capt)")
               /\ ~SeatActive(r, "Pitch (FO)", "Roll (FO)")
         /\ PilotAutopilot1(r).items # <<>>
         /\ PilotAutopilot2(r).items # <<>>)
            => LET engaged1 == Flag(r, PilotAutopilot1(r)) # 0
                   engaged2 == Flag(r, PilotAutopilot2(r)) # 0
               IN  /\ (engaged1 /\ ~engaged2) => res[r].val = V("Captain")
                   /\ (engaged2 /\ ~engaged1)
                        => res[r].val = V("First Officer")
                   /\ (engaged1 = engaged2)
                        => res[r].val \in {None, Absent}

\* C9: no invocation of a rule whose gate passes ends in an unhandled fault.
C9_NoUnhandledFault == \A r \in Rules : res[r].st # "fault"

\* C10: one invocation of derive calls set_flight_attr at most once.
C10_CommitAtMostOnce == \A r \in Rules : res[r].calls <= 1

\* the end of a whole pass in which every rule was invoked, a pilot rule on
\* the path of both seats active with both autopilot collections holding
\* flags, and some rule committed
C10_Witness ==
    /\ pending = <<>>
    /\ \A r \in Rules : res[r].st # "idle"
    /\ \E r \in PilotRules :
          /\ ControlsPresent(r)
          /\ SeatActive(r, "Pitch (Capt)", "Roll (Capt)")
          /\ SeatActive(r, "Pitch (FO)", "Roll (FO)")
          /\ PilotAutopilot1(r).items # <<>>
          /\ PilotAutopilot2(r).items # <<>>
    /\ \E r \in Rules : res[r].calls = 1

ApproachIntervals == K("Approach And Landing").items

\* Approaches.derive has been invoked and has committed its list
ApproachesDone == res["Approaches"].st = "done" /\ res["Approaches"].calls = 1

ApproachRecords == res["Approaches"].val.v

\* how many entries of a collection lie in the interval [start, stop)
CountIn(name, sl) ==
    Cardinality({j \in DOMAIN K(name).items :
                    /\ sl.start <= K(name).items[j].index
                    /\ K(name).items[j].index < sl.stop})

\* the type the priority order gives an interval
ExpectedType(sl) ==
    IF CountIn("Heading At Landing", sl) = 1 THEN V("LANDING")
    ELSE IF CountIn("Touch And Go", sl) = 1 THEN V("TOUCH_AND_GO")
    ELSE IF CountIn("Go Around", sl) = 1 THEN V("GO_AROUND")
    ELSE None

\* the timestamp Approaches.derive gives the record of an interval
ApproachDatetime(sl) ==
    A("Start Datetime").value.v + (sl.stop \div inp.frequency)

\* C6: _get_approach_type gives every approach interval one type: LANDING if
\* exactly one Heading At Landing KPV lies in it, otherwise TOUCH_AND_GO if
\* exactly one Touch And Go does, otherwise GO_AROUND if exactly one Go Around
\* does, otherwise None; and that is the type of the interval's record.
C6_ApproachTypePriority ==
    ApproachesDone
        => /\ \A i \in DOMAIN ApproachIntervals :
                get_approach_type(ApproachIntervals[i],
                                  K("Heading At Landing"), K("Touch And Go"),
                                  K("Go Around"))
                    = ExpectedType(ApproachIntervals[i])
           /\ \A k \in DOMAIN ApproachRecords :
                \A i \in DOMAIN ApproachIntervals :
                    ApproachRecords[k].datetime
                          = ApproachDatetime(ApproachIntervals[i])
                        => ApproachRecords[k].type
                              = ExpectedType(ApproachIntervals[i])

\* an interval where all three discriminators match exactly once is recorded
\* as LANDING, and one with two landing headings and one match of each of the
\* others as TOUCH_AND_GO
C6_Witness ==
    /\ ApproachesDone
    /\ \E i, j \in DOMAIN ApproachIntervals :
          /\ CountIn("Heading At Landing", ApproachIntervals[i]) = 1
          /\ CountIn("Touch And Go", ApproachIntervals[i]) = 1
          /\ CountIn("Go Around", ApproachIntervals[i]) = 1
          /\ CountIn("Heading At Landing", ApproachIntervals[j]) = 2
          /\ CountIn("Touch And Go", ApproachIntervals[j]) = 1
          /\ CountIn("Go Around", ApproachIntervals[j]) = 1
          /\ \E k, l \in DOMAIN ApproachRecords :
                /\ ApproachRecords[k].datetime
                      = ApproachDatetime(ApproachIntervals[i])
                /\ ApproachRecords[k].type = V("LANDING")
                /\ ApproachRecords[l].datetime
                      = ApproachDatetime(ApproachIntervals[j])
                /\ ApproachRecords[l].type = V("TOUCH_AND_GO")

\* no pair of KPV collections gives the interval exactly one latitude and
\* exactly one longitude
Unresolved(sl) ==
    /\ ~(/\ CountIn("Latitude At Landing", sl) = 1
         /\ CountIn("Longitude At Landing", sl) = 1)
    /\ ~(/\ CountIn("Latitude At Low Point On Approach", sl) = 1
         /\ CountIn("Longitude At Low Point On Approach", sl) = 1)

\* the airport lookup for the interval's position raises NotFoundError
AirportNotFound(sl) ==
    LET lat == get_lat_lon(sl, K("Latitude At Landing"),
                           K("Longitude At Landing"),
                           K("Latitude At Low Point On Approach"),
                           K("Longitude At Low Point On Approach"))[1]
    IN  lat # None /\ lat.v \in inp.api.no_airport

NoRecord(sl) ==
    \A k \in DOMAIN ApproachRecords :
        ApproachRecords[k].datetime # ApproachDatetime(sl)

\* C7: the list committed by Approaches.derive follows the order of the
\* Approach And Landing intervals, with at most one record per interval; an
\* interval that cannot be classified, whose position cannot be resolved or
\* whose airport lookup raises NotFoundError has no record, and no record has
\* a null airport or a null type.
C7_OrderPreservingSubsequence ==
    ApproachesDone
        => /\ \E f \in [DOMAIN ApproachRecords -> DOMAIN ApproachIntervals] :
                /\ \A a, b \in DOMAIN ApproachRecords :
                      a < b => f[a] < f[b]
                /\ \A k \in DOMAIN ApproachRecords :
                      ApproachRecords[k].datetime
                          = ApproachDatetime(ApproachIntervals[f[k]])
           /\ \A i \in DOMAIN ApproachIntervals :
                (\/ ExpectedType(ApproachIntervals[i]) = None
                 \/ Unresolved(ApproachIntervals[i])
                 \/ AirportNotFound(ApproachIntervals[i]))
                    => NoRecord(ApproachIntervals[i])
           /\ \A k \in DOMAIN ApproachRecords :
                /\ ApproachRecords[k].airport # None
                /\ ApproachRecords[k].type # None

\* two intervals listed against their chronological order, the first without
\* an airport, the second recorded
C7_Witness ==
    /\ ApproachesDone
    /\ Len(ApproachIntervals) = 2
    /\ ApproachIntervals[1].start > ApproachIntervals[2].start
    /\ ExpectedType(ApproachIntervals[1]) # None
    /\ AirportNotFound(ApproachIntervals[1])
    /\ Len(ApproachRecords) = 1
    /\ ApproachRecords[1].datetime = ApproachDatetime(ApproachIntervals[2])

LookupRules == {"LandingAirport", "TakeoffAirport", "LandingRunway",
                "TakeoffRunway"}

\* the geospatial lookup of rule r raises NotFoundError on this flight
LookupRaises(r) ==
    CASE r = "LandingAirport" ->
            /\ K("Latitude At Landing").items # <<>>
            /\ K("Longitude At Landing").items # <<>>
            /\ LET lat == K("Latitude At Landing").items
               IN  lat[Len(lat)].value \in inp.api.no_airport
      [] r = "TakeoffAirport" ->
            /\ K("Liftoff").items # <<>>
            /\ K("Latitude").avail /\ K("Longitude").avail
            /\ K("Latitude").items[K("Liftoff").items[1].index + 1]
                  \in inp.api.no_airport
      [] r = "LandingRunway" ->
            /\ res["LandingAirport"].val.k = "val"
            /\ K("Approach And Landing").items # <<>>
            /\ LET landing == K("Approach And Landing").items[
                                  Len(K("Approach And Landing").items)]
                   hdg == K("Heading At Landing").items
                   within == {j \in DOMAIN hdg :
                                 /\ landing.start <= hdg[j].index
                                 /\ hdg[j].index < landing.stop}
               IN  /\ within # {}
                   /\ hdg[Max(within)].value \in inp.api.no_runway
      [] r = "TakeoffRunway" ->
            /\ res["TakeoffAirport"].val.k = "val"
            /\ K("Heading At Takeoff").items # <<>>
            /\ K("Heading At Takeoff").items[1].value \in inp.api.no_runway

\* C8: the invocation of LandingAirport, TakeoffAirport, LandingRunway or
\* TakeoffRunway in which the geospatial lookup raises NotFoundError ends
\* normally with the rule's own attribute None or never set, changes the
\* result of no other rule and leaves the rest of the pass as planned.
C8_LookupNotFound ==
    [][\A r \in LookupRules :
          (res[r].st = "idle" /\ res'[r].st # "idle" /\ LookupRaises(r))
              => /\ res'[r].st = "done"
                 /\ res'[r].val \in {None, Absent}
                 /\ \A u \in Rules \ {r} : res'[u] = res[u]
                 /\ pending' = Tail(pending)]_vars

\* the end of a pass in which the lookup of LandingAirport and the lookup of
\* TakeoffRunway raised and rules that consume neither attribute committed
C8_Witness ==
    /\ pending = <<>>
    /\ LookupRaises("LandingAirport")
    /\ res["LandingAirport"].st = "done" /\ res["LandingAirport"].val = None
    /\ LookupRaises("TakeoffRunway")
    /\ res["TakeoffRunway"].st = "done" /\ res["TakeoffRunway"].val = Absent
    /\ res["TakeoffDatetime"].val = V(1000)
    /\ res["Version"].st = "done"

Fasts == K("Fast").items

\* the peak-to-peak range of Groundspeed exceeds the ground run threshold
GroundspeedMoved ==
    /\ K("Groundspeed").avail
    /\ \E i, j \in DOMAIN K("Groundspeed").items :
          K("Groundspeed").items[i] - K("Groundspeed").items[j] > 10

GroundTypes == {V("REJECTED_TAKEOFF"), V("GROUND_RUN"), V("ENGINE_RUN_UP")}

\* C11: with neither Liftoff nor Touchdown, FlightType commits
\* REJECTED_TAKEOFF if a Fast interval exists, otherwise GROUND_RUN if
\* Groundspeed is available with a range strictly above 10, otherwise
\* ENGINE_RUN_UP; it commits none of the three when a Liftoff or a Touchdown
\* exists.
C11_GroundClassification ==
    res["FlightType"].st # "idle"
        => /\ (Liftoffs = {} /\ Touchdowns = {})
                => /\ res["FlightType"].calls = 1
                   /\ res["FlightType"].val =
                        (IF Fasts # <<>> THEN V("REJECTED_TAKEOFF")
                         ELSE IF GroundspeedMoved THEN V("GROUND_RUN")
                         ELSE V("ENGINE_RUN_UP"))
           /\ (Liftoffs # {} \/ Touchdowns # {})
                => res["FlightType"].val \notin GroundTypes

\* no KTI, no Fast interval and a Groundspeed range of exactly 10
C11_Witness ==
    /\ res["FlightType"].st = "done"
    /\ Liftoffs = {} /\ Touchdowns = {} /\ Fasts = <<>>
    /\ K("Groundspeed").avail
    /\ ptp(K("Groundspeed").items) = 10
    /\ res["FlightType"].val = V("ENGINE_RUN_UP")

\* the value of the one entry of a collection in the interval
TheValue(name, sl) ==
    LET items == K(name).items
        j == CHOOSE j \in DOMAIN items :
                 sl.start <= items[j].index /\ items[j].index < sl.stop
    IN  V(items[j].value)

LandingPair(sl) ==
    /\ CountIn("Latitude At Landing", sl) = 1
    /\ CountIn("Longitude At Landing", sl) = 1

ApproachPair(sl) ==
    /\ CountIn("Latitude At Low Point On Approach", sl) = 1
    /\ CountIn("Longitude At Low Point On Approach", sl) = 1

\* the pair the source priority gives an interval
ExpectedLatLon(sl) ==
    IF LandingPair(sl)
    THEN <<TheValue("Latitude At Landing", sl),
           TheValue("Longitude At Landing", sl)>>
    ELSE IF ApproachPair(sl)
    THEN <<TheValue("Latitude At Low Point On Approach", sl),
           TheValue("Longitude At Low Point On Approach", sl)>>
    ELSE <<None, None>>

\* C12: _get_lat_lon gives every interval the landing pair when each landing
\* source has exactly one KPV in it, whatever the approach sources hold; the
\* approach pair only when the landing pair is not exactly-one/exactly-one and
\* each approach source has exactly one; otherwise (None, None).  The two
\* coordinates never come from different source kinds.
C12_LatLonSourcePriority ==
    ApproachesDone
        => \A i \in DOMAIN ApproachIntervals :
              get_lat_lon(ApproachIntervals[i], K("Latitude At Landing"),
                          K("Longitude At Landing"),
                          K("Latitude At Low Point On Approach"),
                          K("Longitude At Low Point On Approach"))
                  = ExpectedLatLon(ApproachIntervals[i])

\* an approach with one landing latitude, two landing longitudes and one KPV
\* of each approach source, recorded at the approach pair's airport
C12_Witness ==
    /\ ApproachesDone
    /\ \E i \in DOMAIN ApproachIntervals :
          /\ CountIn("Latitude At Landing", ApproachIntervals[i]) = 1
          /\ CountIn("Longitude At Landing", ApproachIntervals[i]) = 2
          /\ ApproachPair(ApproachIntervals[i])
          /\ \E k \in DOMAIN ApproachRecords :
                ApproachRecords[k].airport =
                    V(get_nearest_airport(
                          TheValue("Latitude At Low Point On Approach",
                                   ApproachIntervals[i]).v,
                          TheValue("Longitude At Low Point On Approach",
                                   ApproachIntervals[i]).v).id)

TakeoffDt == D("FDR Takeoff Datetime", "TakeoffDatetime")
LandingDt == D("FDR Landing Datetime", "LandingDatetime")

\* Duration.derive has been invoked with both datetime attributes bound
DurationInvoked ==
    res["Duration"].st # "idle" /\ TakeoffDt.avail /\ LandingDt.avail

\* C13: Duration is the landing timestamp minus the takeoff timestamp, in
\* seconds, when both datetime attributes have a value, and None when either
\* value is None; deriving it again from the same inputs gives the same
\* result.
C13_Duration ==
    DurationInvoked
        => /\ res["Duration"].st = "done"
           /\ res["Duration"].calls = 1
           /\ (TakeoffDt.value # None /\ LandingDt.value # None)
                => res["Duration"].val
                      = V(LandingDt.value.v - TakeoffDt.value.v)
           /\ (TakeoffDt.value = None \/ LandingDt.value = None)
                => res["Duration"].val = None
           /\ Duration_derive(TakeoffDt, LandingDt) = res["Duration"]

\* a flight whose takeoff and landing datetimes both exist and differ
C13_Witness ==
    /\ DurationInvoked
    /\ TakeoffDt.value # None /\ LandingDt.value # None
    /\ LandingDt.value.v > TakeoffDt.value.v
    /\ res["Duration"].val = V(LandingDt.value.v - TakeoffDt.value.v)

\* what derive of rule r commits, as a function of the rule's declared inputs
Outcome(r) ==
    CASE r = "TakeoffPilot" ->
            TakeoffPilot_derive(K("Autopilot Engaged 1 At Liftoff"),
               K("Autopilot Engaged 2 At Liftoff"),
               K("Pitch (Capt)"), K("Roll (Capt)"),
               K("Pitch (FO)"), K("Roll (FO)"), K("Takeoff"))
      [] r = "LandingPilot" ->
            LandingPilot_derive(K("Pitch (Capt)"), K("Roll (Capt)"),
               K("Pitch (FO)"), K("Roll (FO)"), K("Landing"),
               K("Autopilot Engaged 1 At Touchdown"),
               K("Autopilot Engaged 2 At Touchdown"))
      [] r = "FlightType" ->
            FlightType_derive(A("AFR Type"), K("Fast"), K("Liftoff"),
               K("Touchdown"), K("Touch And Go"),
               K("Groundspeed"))
      [] r = "Approaches" ->
            Approaches_derive(ApproachesArgs)
      [] r = "TakeoffAirport" ->
            TakeoffAirport_derive(K("Liftoff"), K("Latitude"), K("Longitude"))
      [] r = "TakeoffRunway" ->
            TakeoffRunway_derive(D("FDR Takeoff Airport", "TakeoffAirport"),
               K("Heading At Takeoff"), K("Liftoff"),
               K("Latitude"), K("Longitude"),
               A("Precise Positioning"))
      [] r = "LandingAirport" ->
            LandingAirport_derive(K("Latitude At Landing"),
               K("Longitude At Landing"))
      [] r = "LandingRunway" ->
            LandingRunway_derive(K("Approach And Landing"),
               K("Heading At Landing"),
               D("FDR Landing Airport", "LandingAirport"),
               K("Latitude At Landing"),
               K("Longitude At Landing"),
               K("ILS Frequency On Approach"),
               A("Precise Positioning"))
      [] r = "TakeoffDatetime" ->
            TakeoffDatetime_derive(K("Liftoff"), A("Start Datetime"))
      [] r = "LandingDatetime" ->
            LandingDatetime_derive(A("Start Datetime"), K("Touchdown"))
      [] r = "Duration" ->
            Duration_derive(D("FDR Takeoff Datetime", "TakeoffDatetime"),
               D("FDR Landing Datetime", "LandingDatetime"))
      [] r = "TakeoffFuel" ->
            TakeoffFuel_derive(A("AFR Takeoff Fuel"), K("Fuel Qty At Liftoff"))
      [] r = "LandingFuel" ->
            LandingFuel_derive(A("AFR Landing Fuel"),
               K("Fuel Qty At Touchdown"))
      [] r = "TakeoffGrossWeight" ->
            TakeoffGrossWeight_derive(K("Gross Weight At Liftoff"))
      [] r = "LandingGrossWeight" ->
            LandingGrossWeight_derive(K("Gross Weight At Touchdown"))
      [] r = "FlightID" ->
            FlightID_derive(A("AFR Flight ID"))
      [] r = "FlightNumber" ->
            FlightNumber_derive(K("Flight Number"))
      [] r = "OffBlocksDatetime" ->
            OffBlocksDatetime_derive(K("Turning"), A("Start Datetime"))
      [] r = "OnBlocksDatetime" ->
            OnBlocksDatetime_derive(K("Turning"), A("Start Datetime"))
      [] r = "V2" ->
            V2_derive(K("Gross Weight At Touchdown"),
               K("Flap At Touchdown"))
      [] r = "Vapp" ->
            Vapp_derive(K("Gross Weight At Touchdown"),
               K("Flap At Touchdown"))
      [] r = "Vref" ->
            Vref_derive(A("AFR Aircraft Model"),
               K("Gross Weight At Touchdown"),
               K("Flap At Touchdown"))
      [] r = "Version" ->
            Version_derive(A("Start Datetime"))

\* the invocation of rule r is this step
Invokes(r) == res[r].st = "idle" /\ res'[r].st # "idle"

Planned(r) == r \in SeqRange(pending) \/ res[r].st # "idle"

\* the four position names, by source
ApproachPairNames ==
    {"Latitude At Low Point On Approach", "Longitude At Low Point On Approach"}
LandingPairNames == {"Latitude At Landing", "Longitude At Landing"}

\* C15: Approaches is planned exactly when Start Datetime, Approach And
\* Landing, Heading At Landing, Touch And Go and Go Around are all available
\* and one whole position pair, of the approach or of the landing, is; one
\* name of each pair is not enough.
C15_ApproachesGate ==
    Planned("Approaches")
        <=> /\ \A x \in {"Start Datetime", "Approach And Landing",
                         "Heading At Landing", "Touch And Go", "Go Around"} :
                   x \in BaseAvailable
            /\ \E pair \in {ApproachPairNames, LandingPairNames} :
                   pair \subseteq BaseAvailable

\* everything required, an approach latitude and a landing longitude only:
\* the rule is left out of the pass
C15_Witness ==
    /\ {"Start Datetime", "Approach And Landing", "Heading At Landing",
        "Touch And Go", "Go Around"} \subseteq BaseAvailable
    /\ BaseAvailable \cap (ApproachPairNames \cup LandingPairNames)
          = {"Latitude At Low Point On Approach", "Longitude At Landing"}
    /\ ~Planned("Approaches")
    /\ res["Approaches"] = Idle

\* what a fuel rule commits: the manually entered value when the attribute
\* is available, else the value of the KPV in pick, else nothing
FuelOutcome(r, afr, kpvs, pick) ==
    /\ res[r].st = "done"
    /\ afr \in DOMAIN inp.attr => res[r].val = inp.attr[afr]
    /\ (afr \notin DOMAIN inp.attr /\ K(kpvs).items # <<>>)
          => \E e \in pick : res[r].val = V(e.value)
    /\ (afr \notin DOMAIN inp.attr /\ K(kpvs).items = <<>>)
          => res[r].val = Absent

FuelAtLiftoff == SeqRange(K("Fuel Qty At Liftoff").items)
FuelAtTouchdown == SeqRange(K("Fuel Qty At Touchdown").items)

\* C16: TakeoffFuel and LandingFuel commit the manually entered value when
\* that attribute is available, whatever the KPVs; else the value of the
\* first Fuel Qty At Liftoff, respectively the last Fuel Qty At Touchdown;
\* with neither, the attribute is left absent.
C16_FuelPreference ==
    /\ res["TakeoffFuel"].st # "idle"
          => FuelOutcome("TakeoffFuel", "AFR Takeoff Fuel", "Fuel Qty At Liftoff",
                 {e \in FuelAtLiftoff :
                     \A f \in FuelAtLiftoff : e.index <= f.index})
    /\ res["LandingFuel"].st # "idle"
          => FuelOutcome("LandingFuel", "AFR Landing Fuel",
                 "Fuel Qty At Touchdown",
                 {e \in FuelAtTouchdown :
                     \A f \in FuelAtTouchdown : e.index >= f.index})

\* no manual entry, several quantities: the first at liftoff, of value 0, and
\* the last at touchdown are committed
C16_Witness ==
    /\ DOMAIN inp.attr \cap {"AFR Takeoff Fuel", "AFR Landing Fuel"} = {}
    /\ Len(K("Fuel Qty At Liftoff").items) > 1
    /\ Len(K("Fuel Qty At Touchdown").items) > 1
    /\ res["TakeoffFuel"].val = V(0)
    /\ res["LandingFuel"].val = V(Len(K("Fuel Qty At Touchdown").items) - 1)

\* rule r, invoked after the airport rule committed None, finished without
\* a fault and left its attribute absent
QuietAfterNoAirport(r, airport_rule) ==
    (res[airport_rule].val = None /\ res[r].st # "idle")
        => res[r].st = "done" /\ res[r].val = Absent

\* C17: after LandingAirport (TakeoffAirport) committed None, for missing
\* inputs or a failed lookup, the invocation of LandingRunway (TakeoffRunway)
\* finishes without a fault and leaves the runway attribute absent.
C17_RunwayAfterNoAirport ==
    /\ QuietAfterNoAirport("LandingRunway", "LandingAirport")
    /\ QuietAfterNoAirport("TakeoffRunway", "TakeoffAirport")

\* the heading the source priority gives an interval
ExpectedHdg(sl) ==
    IF CountIn("Heading At Landing", sl) = 1
    THEN TheValue("Heading At Landing", sl)
    ELSE IF CountIn("Heading At Low Point On Approach", sl) = 1
    THEN TheValue("Heading At Low Point On Approach", sl)
    ELSE None

\* C18: Approaches.derive treats a latitude, longitude or heading that
\* resolves to one KPV of value 0 like any other resolved value: an interval
\* with a type, a resolved position and an airport has a record, and the
\* record has a runway when the heading resolves and the runway lookup
\* succeeds.
C18_ZeroIsAValue ==
    ApproachesDone
        => \A i \in DOMAIN ApproachIntervals :
              LET sl == ApproachIntervals[i]
              IN  (/\ ExpectedType(sl) # None
                   /\ ~Unresolved(sl)
                   /\ ~AirportNotFound(sl))
                      => /\ ~NoRecord(sl)
                         /\ (/\ ExpectedHdg(sl) # None
                             /\ ExpectedHdg(sl).v \notin inp.api.no_runway)
                               => \A k \in DOMAIN ApproachRecords :
                                     ApproachRecords[k].datetime
                                            = ApproachDatetime(sl)
                                        => ApproachRecords[k].runway # None

\* C19: _get_hdg gives every interval the Heading At Landing value when
\* exactly one such KPV lies in it, otherwise the Heading At Low Point On
\* Approach value when exactly one of those does, otherwise None; a source
\* with no or several KPVs in the interval is passed over, never resolved by
\* picking one of them.  A record's runway is the one identified by that
\* heading.
C19_HdgSourcePriority ==
    ApproachesDone
        => \A i \in DOMAIN ApproachIntervals :
              LET sl == ApproachIntervals[i]
              IN  /\ get_hdg(sl, K("Heading At Landing"),
                             K("Heading At Low Point On Approach"))
                        = ExpectedHdg(sl)
                  /\ \A k \in DOMAIN ApproachRecords :
                        (/\ ApproachRecords[k].datetime = ApproachDatetime(sl)
                         /\ ApproachRecords[k].runway # None)
                            => ApproachRecords[k].runway = ExpectedHdg(sl)

\* an approach with two landing headings and one approach heading, recorded
\* with the runway of the approach heading
C19_Witness ==
    /\ ApproachesDone
    /\ \E i \in DOMAIN ApproachIntervals :
          /\ CountIn("Heading At Landing", ApproachIntervals[i]) = 2
          /\ CountIn("Heading At Low Point On Approach", ApproachIntervals[i]) = 1
          /\ \E k \in DOMAIN ApproachRecords :
                ApproachRecords[k].runway
                    = TheValue("Heading At Low Point On Approach",
                               ApproachIntervals[i])

\* FlightType committed COMPLETE or the manually entered type
CompleteOrOverride ==
    res["FlightType"].val \in {V("COMPLETE")} \cup {V(t) : t \in AfrOverrides}

\* a Duration below zero has been committed
NegativeDuration == res["Duration"].val.k = "val" /\ res["Duration"].val.v < 0

\* C20: for a recording with a Start Datetime, whenever FlightType commits
\* COMPLETE or a manually entered type, the takeoff datetime (first liftoff)
\* is not later than the landing datetime (last touchdown) and the Duration
\* committed is their non-negative difference; a negative Duration goes with
\* another classification only.
C20_DurationNonNegative ==
    /\ (/\ CompleteOrOverride
        /\ "Start Datetime" \in DOMAIN inp.attr
        /\ res["TakeoffDatetime"].st # "idle"
        /\ res["LandingDatetime"].st # "idle")
          => /\ TakeoffDt.value # None /\ LandingDt.value # None
             /\ TakeoffDt.value.v <= LandingDt.value.v
             /\ res["Duration"].st # "idle"
                   => /\ res["Duration"].val.k = "val"
                      /\ res["Duration"].val.v
                            = LandingDt.value.v - TakeoffDt.value.v
                      /\ res["Duration"].val.v >= 0
    /\ NegativeDuration => ~CompleteOrOverride

\* a flight with the manually entered type committed, several touchdowns, the
\* first at the liftoff's instant, and a positive Duration
C20_Witness ==
    /\ res["FlightType"].val = V("FERRY")
    /\ Len(K("Touchdown").items) > 1
    /\ get_first(K("Touchdown").items).index = get_first(K("Liftoff").items).index
    /\ res["Duration"].val.k = "val"
    /\ res["Duration"].val.v > 0

====
